---- MODULE Spec2Model ----
(***************************************************************************)
(* Flok matching engine: state store, RSVP handlers, pulse engine, scorer  *)
(* and capacity-constrained assignment solver.                             *)
(*                                                                         *)
(* Units.  Scores are integers in thousandths (0.5 is 500).  Solver costs  *)
(* are the integers the code computes, round((max_score - score) * 100).   *)
(* Net demand is in tenths (accepted = +10).  Pulses are in hundredths of  *)
(* a pulse point (50.0 is 5000).                                           *)
(***************************************************************************)
EXTENDS Integers, Sequences, FiniteSets, TLC

\* ------------------------------------------------------------------------
\* Bounds of the model
\* ------------------------------------------------------------------------
MaxSolverUsers == 2
MaxSolverOpps == 2
MaxUsers == 2
MaxOpps == 1
MaxInteractions == 1
MaxHistory == 1
MaxRequests == 6
MaxTicks == 2
MaxFeedbackCalls == 2
MaxLiveRequests == 3
MaxRecOpps == 3

\* ------------------------------------------------------------------------
\* Generic helpers
\* ------------------------------------------------------------------------
Range(s) == {s[i] : i \in DOMAIN s}

Max2(a, b) == IF a >= b THEN a ELSE b

Min2(a, b) == IF a <= b THEN a ELSE b

SetMax(S) == CHOOSE x \in S : \A y \in S : y <= x

SetMin(S) == CHOOSE x \in S : \A y \in S : x <= y

RECURSIVE SumOver(_, _)
SumOver(S, f) ==
  IF S = {} THEN 0
  ELSE LET x == CHOOSE y \in S : TRUE IN f[x] + SumOver(S \ {x}, f)

\* dict.get(key, default)
Get(d, k, default) == IF k \in DOMAIN d THEN d[k] ELSE default

\* Python round(): round half to even, on a value given as x / 10.
RoundHalfEven10(x) ==
  LET q == x \div 10
      r == x % 10
  IN IF r < 5 THEN q
     ELSE IF r > 5 THEN q + 1
     ELSE IF q % 2 = 0 THEN q ELSE q + 1

\* ------------------------------------------------------------------------
\* Identifiers
\* ------------------------------------------------------------------------
UserName == <<"u0", "u1", "u2", "u3">>

OppName == <<"o0", "o1", "o2", "o3">>

Sink == "sink"

\* ------------------------------------------------------------------------
\* optimizer/solver.py : assignment solver
\* ------------------------------------------------------------------------
\* scores = [score for user_scores in score_matrix.values() ...]
\* max_score = max(scores, default=0.0); if max_score < 0: max_score = 0.0
max_score(score_matrix) ==
  LET scores == UNION {Range(score_matrix[u]) : u \in DOMAIN score_matrix}
  IN IF scores = {} THEN 0 ELSE Max2(0, SetMax(scores))

\* cost_for(score) = int(round((max_score - score) * scale)), scale = 100
cost_for(mx, score) == RoundHalfEven10(mx - score)

unassigned_costBug(mx) == 0

unassigned_cost(mx) == cost_for(mx, 0)

\* The flows of the min-cost-flow network: every user node carries one unit
\* to an opportunity it has an arc to, or to the sink over its fallback arc.
\* The arc opp -> sink exists only when max(0, capacity) > 0.
FlowHeads(users, opps, score_matrix, capacities, u) ==
  {o \in Range(opps) :
      /\ o \in DOMAIN Get(score_matrix, u, <<>>)
      /\ Max2(0, Get(capacities, o, 0)) > 0} \cup {Sink}

OppArcCapacityBug(capacities, o) == Get(capacities, o, 0) + 1

OppArcCapacity(capacities, o) == Max2(0, Get(capacities, o, 0))

FeasibleFlows(users, opps, score_matrix, capacities) ==
  {f \in [Range(users) -> Range(opps) \cup {Sink}] :
      /\ \A u \in Range(users) :
            f[u] \in FlowHeads(users, opps, score_matrix, capacities, u)
      /\ \A o \in Range(opps) :
            Cardinality({u \in Range(users) : f[u] = o})
               <= OppArcCapacity(capacities, o)}

FlowCost(users, score_matrix, f) ==
  LET mx == max_score(score_matrix)
      c == [u \in Range(users) |->
              IF f[u] = Sink THEN unassigned_cost(mx)
              ELSE cost_for(mx, score_matrix[u][f[u]])]
  IN SumOver(Range(users), c)

OptimalFlowsAnyFeasible(users, opps, score_matrix, capacities) ==
  FeasibleFlows(users, opps, score_matrix, capacities)

\* The flows a min-cost-flow solver may return with status OPTIMAL.
OptimalFlows(users, opps, score_matrix, capacities) ==
  LET F == FeasibleFlows(users, opps, score_matrix, capacities)
  IN {f \in F : \A g \in F :
        FlowCost(users, score_matrix, f) <= FlowCost(users, score_matrix, g)}

\* assignments: walk the users in order, keep the arc with flow into an opp
RECURSIVE FlowAssignments(_, _, _)
FlowAssignments(users, f, i) ==
  IF i > Len(users) THEN <<>>
  ELSE IF f[users[i]] = Sink THEN FlowAssignments(users, f, i + 1)
  ELSE <<<<users[i], f[users[i]]>>>> \o FlowAssignments(users, f, i + 1)

\* unassigned = [u.id for u in users if u.id not in assigned_users]
UnassignedBug(users, assignments) ==
  SelectSeq(users, LAMBDA u : \A k \in DOMAIN assignments : k = 1 \/ assignments[k][1] # u)

Unassigned(users, assignments) ==
  SelectSeq(users, LAMBDA u : \A k \in DOMAIN assignments : assignments[k][1] # u)

FlowResult(users, f) ==
  LET a == FlowAssignments(users, f, 1)
  IN [assignments |-> a, unassigned |-> Unassigned(users, a)]

\* choices = sorted(score_matrix.get(user.id, {}).items(), key=score, reverse=True)
\* The sort is stable: equal scores keep the row's insertion order, which is
\* the order of opps in build_score_matrix.
RowOrder(opps, row) == SelectSeq(opps, LAMBDA o : o \in DOMAIN row)

RECURSIVE SortedChoices(_, _)
SortedChoices(order, row) ==
  IF order = <<>> THEN <<>>
  ELSE LET best == SetMax({row[order[i]] : i \in DOMAIN order})
           k == SetMin({i \in DOMAIN order : row[order[i]] = best})
       IN <<order[k]>> \o
          SortedChoices(SelectSeq(order, LAMBDA o : o # order[k]), row)

\* first choice with remaining.get(opp_id, 0) > 0
FirstAvailable(choices, remaining) ==
  LET ok == {i \in DOMAIN choices : Get(remaining, choices[i], 0) > 0}
  IN IF ok = {} THEN Sink ELSE choices[SetMin(ok)]

RECURSIVE GreedyLoop(_, _, _, _, _, _)
GreedyLoop(users, opps, score_matrix, remaining, i, acc) ==
  IF i > Len(users) THEN acc
  ELSE LET row == Get(score_matrix, users[i], <<>>)
           choices == SortedChoices(RowOrder(opps, row), row)
           pick == FirstAvailable(choices, remaining)
       IN IF pick = Sink
          THEN GreedyLoop(users, opps, score_matrix, remaining, i + 1, acc)
          ELSE GreedyLoop(users, opps, score_matrix,
                          [remaining EXCEPT ![pick] = @ - 1], i + 1,
                          Append(acc, <<users[i], pick>>))

\* remaining = {opp_id: max(0, cap) for opp_id, cap in capacities.items()}
_solve_greedy(users, opps, score_matrix, capacities) ==
  LET remaining == [o \in DOMAIN capacities |-> Max2(0, capacities[o])]
      a == GreedyLoop(users, opps, score_matrix, remaining, 1, <<>>)
  IN [assignments |-> a, unassigned |-> Unassigned(users, a)]

\* Results of _solve_with_ortools when the solver reports OPTIMAL.
_solve_with_ortools(users, opps, score_matrix, capacities) ==
  {FlowResult(users, f) : f \in OptimalFlows(users, opps, score_matrix, capacities)}

\* Results of _solve_with_networkx (nx.min_cost_flow returned a flow).
_solve_with_networkx(users, opps, score_matrix, capacities) ==
  {FlowResult(users, f) : f \in OptimalFlows(users, opps, score_matrix, capacities)}

SolverPaths == {"ortools", "networkx", "greedy"}

\* solve_assignment: OR-Tools, else NetworkX, else greedy.  Which path runs
\* depends on which library imports and solves without raising.
solve_assignment(path, users, opps, score_matrix, capacities) ==
  IF path = "ortools" THEN _solve_with_ortools(users, opps, score_matrix, capacities)
  ELSE IF path = "networkx" THEN _solve_with_networkx(users, opps, score_matrix, capacities)
  ELSE {_solve_greedy(users, opps, score_matrix, capacities)}


\* ------------------------------------------------------------------------
\* Dictionaries
\* ------------------------------------------------------------------------
EmptyMap == [x \in {} |-> 0]

Put(d, k, v) == [x \in DOMAIN d \cup {k} |-> IF x = k THEN v ELSE d[x]]

\* dict.setdefault(k, v) leaves an existing entry alone
SetDefault(d, k, v) == IF k \in DOMAIN d THEN d ELSE Put(d, k, v)

\* dict iteration order is insertion order; ids are issued in name order
KeysInOrder(names, d) == SelectSeq(names, LAMBDA k : k \in DOMAIN d)

\* ------------------------------------------------------------------------
\* core/config.py, domain/models.py : settings and vocabularies
\* ------------------------------------------------------------------------
pricing_liquidity_k == 5

pricing_lambda == 1

fairness_lambda10 == 5

demand_decay_tau_hours == 12

HistoryCap == 50

TimeBuckets == {"weeknights", "weekends"}

EventType == {"shown", "clicked", "accepted", "declined", "attended"}

NoCohort == "none"

RSVPStatusLiteral == {"CONFIRMED", "FULL", "WAITLISTED"}

\* ------------------------------------------------------------------------
\* optimizer/pricing.py : pulse engine
\* ------------------------------------------------------------------------
\* 10000 * sigmoid(k / 2) for k = 0..12, the table the model interpolates
SigmoidTable ==
  <<5000, 6225, 7311, 8176, 8808, 9241, 9526, 9707, 9820, 9890, 9933, 9959, 9975>>

\* 10000 / (1 + exp(-num/den)), den > 0, linear between the table points
SigmoidPos(num, den) ==
  LET k == (2 * num) \div den
  IN IF k >= 12 THEN 9975
     ELSE SigmoidTable[k + 1]
          + ((SigmoidTable[k + 2] - SigmoidTable[k + 1]) * (2 * num - k * den))
              \div den

_sigmoid(num, den) ==
  IF num >= 0 THEN SigmoidPos(num, den) ELSE 10000 - SigmoidPos(-num, den)

\* pulse_from_demand: 50.0 when liquidity <= 0, else 100 * sigmoid(net / liquidity)
\* net in tenths, liquidity in units, result in hundredths of a pulse point
pulse_from_demandLinear(net_demand, liquidity) ==
  IF liquidity <= 0 THEN 5000 ELSE 5000 + (100 * net_demand) \div liquidity

pulse_from_demand(net_demand, liquidity) ==
  IF liquidity <= 0 THEN 5000 ELSE _sigmoid(net_demand, 10 * liquidity)

NoOverrides == [lambda_price |-> pricing_lambda, liquidity_k |-> pricing_liquidity_k]

\* get_pricing_config: the settings, with the overrides that are not None
get_pricing_config(overrides) == overrides

\* One iteration of the loop of compute_pulses: the pulse of one opportunity
PulseOf(st, cfg, opp_id, cap) ==
  pulse_from_demand(Get(st.net_demand, opp_id, 0), cfg.liquidity_k * Max2(1, cap))

\* compute_pulses(store, capacities, overrides), record_history = False:
\* the returned map
PulseMap(st, capacities, overrides) ==
  [o \in DOMAIN capacities |->
      PulseOf(st, get_pricing_config(overrides), o, capacities[o])]

\* ... and the store after it: store.prices[opp_id] = pulse for every key
WritePrices(st, pulses) ==
  [st EXCEPT !.prices = [o \in DOMAIN st.prices \cup DOMAIN pulses |->
                            IF o \in DOMAIN pulses THEN pulses[o] ELSE st.prices[o]]]

\* ------------------------------------------------------------------------
\* domain/features.py
\* ------------------------------------------------------------------------
availability_okBug(user, opp) == TRUE

availability_ok(user, opp) ==
  IF user.availability = {} THEN TRUE ELSE opp.time_bucket \in user.availability

novelty_bonus(user_id, opp_id, interactions) ==
  IF interactions = <<>> THEN 500
  ELSE IF \E i \in DOMAIN interactions :
            interactions[i].user_id = user_id /\ interactions[i].opp_id = opp_id
       THEN 0 ELSE 1000

\* ------------------------------------------------------------------------
\* ml/rsvp_model.py : the default model (no artifact on disk)
\* ------------------------------------------------------------------------
ModelBias == 0

ModelWeightNovelty == 0

\* predict_proba: sigmoid(bias + sum of weight * feature), in thousandths
predict_proba(novelty) ==
  _sigmoid(ModelBias * 1000 + ModelWeightNovelty * novelty, 1000) \div 10

\* ------------------------------------------------------------------------
\* optimizer/fairness.py
\* ------------------------------------------------------------------------
\* rates[cohort] = assigned / total, in thousandths
exposure_rates(users, profile, assignments) ==
  LET cohorts == {profile[u].cohort : u \in Range(users)} \ {NoCohort}
      total(c) == Cardinality({u \in Range(users) : profile[u].cohort = c})
      assigned(c) == Cardinality({k \in DOMAIN assignments :
                        /\ assignments[k][1] \in Range(users)
                        /\ profile[assignments[k][1]].cohort = c})
  IN [c \in cohorts |-> (assigned(c) * 1000) \div total(c)]

fairness_boost(cohort, rates) ==
  IF cohort = NoCohort \/ DOMAIN rates = {} THEN 0
  ELSE Max2(0, SetMax(Range(rates)) - Get(rates, cohort, 0))

\* ------------------------------------------------------------------------
\* optimizer/solver.py : scoring
\* ------------------------------------------------------------------------
\* score_final = s_ml + price_adjustment + lambda_fair * boost
ScoreFinalBug(st, user_id, user, opp_id, pulse, cfg, rates, apply_fairness, lambda_fair10) ==
  LET s_ml == predict_proba(novelty_bonus(user_id, opp_id, st.interactions))
      price_adjustment == 0 - cfg.lambda_price * (pulse - 5000) * 10
  IN s_ml + price_adjustment + (lambda_fair10 * fairness_boost(user.cohort, rates)) \div 10

ScoreFinal(st, user_id, user, opp_id, pulse, cfg, rates, apply_fairness, lambda_fair10) ==
  LET s_ml == predict_proba(novelty_bonus(user_id, opp_id, st.interactions))
      price_adjustment == 0 - cfg.lambda_price * (pulse - 5000) * 10
      boost == IF apply_fairness THEN fairness_boost(user.cohort, rates) ELSE 0
  IN s_ml + price_adjustment + (lambda_fair10 * boost) \div 10

\* build_score_matrix: one row per user; a pair is skipped (no score, no
\* explanation) when availability_ok < 0.5.  users and opps are the lists
\* the caller copied; profile and opprec are the objects in those lists.
build_score_matrix(st, users, profile, opps, opprec, pulse_map, overrides, apply_fairness, lambda_fair10) ==
  LET cfg == get_pricing_config(overrides)
      rates == exposure_rates(users, profile, st.last_assignment)
  IN [u \in Range(users) |->
        [o \in {x \in Range(opps) : availability_ok(profile[u], opprec[x])} |->
            ScoreFinal(st, u, profile[u], o, Get(pulse_map, o, 5000), cfg,
                       rates, apply_fairness, lambda_fair10)]]

\* explanations[f"{user.id}|{opp.id}"] = ScoreExplanation(...) is written in
\* the same iteration as the score: the keys of the explanation map
build_explanations(users, profile, opps, opprec) ==
  {<<u, o>> \in Range(users) \X Range(opps) : availability_ok(profile[u], opprec[o])}


\* ------------------------------------------------------------------------
\* State
\* ------------------------------------------------------------------------
VARIABLES
  store,     \* StateStore: users, opps and the per-opportunity maps
  heap,      \* the list objects store.pulse_history refers to
  lock,      \* StateStore.lock: the request holding it, or NoThread
  now,       \* the clock, datetime.now()
  th,        \* per request thread: position, arguments, locals, response
  snap,      \* the value a caller got from snapshot()
  sv,        \* solver harness: inputs and result of a direct solve_assignment call
  reqs       \* number of requests received so far

vars == <<store, heap, lock, now, th, snap, sv, reqs>>

Threads == {1, 2}

NoThread == 0

NoResp == [status |-> "", spots_left |-> 0, items |-> <<>>]

Resp(status, spots_left) == [status |-> status, spots_left |-> spots_left, items |-> <<>>]

\* FeedResponse(items=...), TrendingResponse(items=...)
ItemsResponse(items) == [status |-> "OK", spots_left |-> 0, items |-> items]

\* SolveRequest: pricing, enable_fairness_boost, lambda_fair (user_ids = None)
DefaultSolveRequest ==
  [pricing |-> NoOverrides, enable_fairness_boost |-> FALSE,
   lambda_fair10 |-> fairness_lambda10]

\* What a client keeps of the solve response it received before the one it
\* is waiting for
NoPrev ==
  [op |-> "", status |-> "", request |-> DefaultSolveRequest, path |-> "",
   users |-> <<>>, rates |-> EmptyMap, matrix |-> EmptyMap, assignments |-> <<>>]

\* A thread between requests: everything but the last response is cleared
Idle(resp) ==
  [pc |-> "idle", op |-> "", user |-> "", opp |-> "", ev |-> "", resp |-> resp,
   ts |-> 0,
   spots_left |-> 0, users |-> <<>>, profile |-> EmptyMap, opps |-> <<>>,
   opprec |-> EmptyMap, matrix |-> EmptyMap, explanations |-> {},
   assignments |-> <<>>,
   unassigned |-> <<>>, idx |-> 0, href |-> 0,
   request |-> DefaultSolveRequest, path |-> "", fixture |-> "",
   pulses |-> EmptyMap, actors |-> <<>>, rsvps_per_step |-> 0,
   before_pulse |-> 0, after_pulse |-> 0, rsvp_count |-> 0, prev_rsvp_count |-> 0,
   rates |-> EmptyMap, prev |-> NoPrev, log_failed |-> FALSE]

\* StateStore.reset(): the state after construction
EmptyStore ==
  [users |-> EmptyMap, opps |-> EmptyMap, prices |-> EmptyMap,
   net_demand |-> EmptyMap, last_demand_ts |-> EmptyMap,
   shown_window |-> EmptyMap, interactions |-> <<>>, last_assignment |-> <<>>,
   rsvps |-> EmptyMap, pulse_history |-> EmptyMap,
   demo_hot_event_id |-> "", demo_user_ids |-> <<>>,
   demo_step_queue |-> EmptyMap, demo_step_counts |-> EmptyMap,
   demo_actor_seq |-> 0]

\* StateStore.snapshot(): dict(...) and list(...) copy one level;
\* "pulse_history": dict(self.pulse_history) copies the dict and keeps the
\* list objects.  last_demand_ts is not part of a snapshot.
SnapshotCopy(st) ==
  [users |-> st.users, opps |-> st.opps, prices |-> st.prices,
   net_demand |-> st.net_demand, shown_window |-> st.shown_window,
   interactions |-> st.interactions, last_assignment |-> st.last_assignment,
   rsvps |-> st.rsvps, pulse_history |-> st.pulse_history]

NoSnap == [taken |-> FALSE, view |-> SnapshotCopy(EmptyStore)]

SvIdle ==
  [pc |-> "input", users |-> <<>>, opps |-> <<>>, matrix |-> EmptyMap,
   capacities |-> EmptyMap, path |-> "", assignments |-> <<>>, unassigned |-> <<>>,
   ortools |-> "", networkx |-> "", top_k |-> 0, recommendations |-> EmptyMap]

Init ==
  /\ store = EmptyStore
  /\ heap = EmptyMap
  /\ lock = NoThread
  /\ now = 0
  /\ th = [t \in Threads |-> Idle(NoResp)]
  /\ snap = NoSnap
  /\ sv = SvIdle
  /\ reqs = 0

\* ------------------------------------------------------------------------
\* Heap of list objects (pulse histories)
\* ------------------------------------------------------------------------
FreshRef(h) == SetMin({r \in 1..(Cardinality(DOMAIN h) + 1) : r \notin DOMAIN h})

\* Lists no longer referenced by the store, a snapshot or a local are dropped
Collect(h, st, sn, thr) ==
  LET live == Range(st.pulse_history) \cup Range(sn.view.pulse_history)
                \cup {thr[t].href : t \in Threads}
  IN [r \in DOMAIN h \cap live |-> h[r]]

\* ------------------------------------------------------------------------
\* services/state_store.py
\* ------------------------------------------------------------------------
\* _ensure_opp_state: every per-opportunity map gets an entry if missing
\* (ref is the new empty list for pulse_history)
_ensure_opp_stateNoRsvps(st, opp_id, ref) ==
  [st EXCEPT
     !.prices = SetDefault(@, opp_id, 0),
     !.net_demand = SetDefault(@, opp_id, 0),
     !.last_demand_ts = SetDefault(@, opp_id, now),
     !.shown_window = SetDefault(@, opp_id, 0),
     !.pulse_history = SetDefault(@, opp_id, ref)]

_ensure_opp_state(st, opp_id, ref) ==
  [st EXCEPT
     !.prices = SetDefault(@, opp_id, 0),
     !.net_demand = SetDefault(@, opp_id, 0),
     !.last_demand_ts = SetDefault(@, opp_id, now),
     !.shown_window = SetDefault(@, opp_id, 0),
     !.rsvps = SetDefault(@, opp_id, {}),
     !.pulse_history = SetDefault(@, opp_id, ref)]

EnsureHeap(h, st, opp_id, ref) ==
  IF opp_id \in DOMAIN st.pulse_history THEN h ELSE Put(h, ref, <<>>)

\* delta of an event: accepted 1.0, declined -0.5, clicked 0.2, else 0
DemandDelta(ev) ==
  IF ev = "accepted" THEN 10
  ELSE IF ev = "declined" THEN -5
  ELSE IF ev = "clicked" THEN 2
  ELSE 0

\* net *= exp(-dt / (tau_hours * 3600)); the clock counts half-lives
RECURSIVE Decay(_, _)
Decay(net, dt) ==
  IF dt <= 0 THEN net
  ELSE Decay(IF net >= 0 THEN net \div 2 ELSE 0 - ((0 - net) \div 2), dt - 1)

\* record_feedback, the part under the lock
record_feedbackCountsAll(st, user_id, opp_id, ev, ref) ==
  LET s1 == _ensure_opp_state(st, opp_id, ref)
      s2 == [s1 EXCEPT !.interactions =
                Append(@, [user_id |-> user_id, opp_id |-> opp_id,
                           event |-> ev, ts |-> now])]
      s3 == [s2 EXCEPT !.shown_window[opp_id] = @ + 1]
      delta == DemandDelta(ev)
      last_ts == Get(s3.last_demand_ts, opp_id, now)
      net == Decay(Get(s3.net_demand, opp_id, 0), now - last_ts)
  IN IF delta # 0
     THEN [s3 EXCEPT !.net_demand[opp_id] = net + delta,
                     !.last_demand_ts[opp_id] = now]
     ELSE s3

record_feedback(st, user_id, opp_id, ev, ref) ==
  LET s1 == _ensure_opp_state(st, opp_id, ref)
      s2 == [s1 EXCEPT !.interactions =
                Append(@, [user_id |-> user_id, opp_id |-> opp_id,
                           event |-> ev, ts |-> now])]
      s3 == IF ev \in {"shown", "clicked", "accepted", "declined"}
            THEN [s2 EXCEPT !.shown_window[opp_id] = @ + 1]
            ELSE s2
      delta == DemandDelta(ev)
      last_ts == Get(s3.last_demand_ts, opp_id, now)
      net == IF demand_decay_tau_hours > 0
             THEN Decay(Get(s3.net_demand, opp_id, 0), now - last_ts)
             ELSE Get(s3.net_demand, opp_id, 0)
  IN IF delta # 0
     THEN [s3 EXCEPT !.net_demand[opp_id] = net + delta,
                     !.last_demand_ts[opp_id] = now]
     ELSE s3

\* ------------------------------------------------------------------------
\* domain/models.py : response validation
\* ------------------------------------------------------------------------
\* RSVPResponse(status=...): status is Literal["CONFIRMED","FULL","WAITLISTED"];
\* any other value raises a validation error and the request fails
RSVPResponse(status, spots_left) ==
  IF status \in RSVPStatusLiteral THEN Resp(status, spots_left)
  ELSE Resp("ERROR", 0)

\* FrontendRSVPResponse: status is any string
FrontendRSVPResponse(status, spots_left) == Resp(status, spots_left)

\* The status each RSVP route puts in its success response
SuccessStatus(op) == IF op = "rsvp" THEN "ACCEPTED" ELSE "CONFIRMED"

RsvpResponse(op, status, spots_left) ==
  IF op = "rsvp" THEN RSVPResponse(status, spots_left)
  ELSE FrontendRSVPResponse(status, spots_left)


\* ------------------------------------------------------------------------
\* Request inputs
\* ------------------------------------------------------------------------
UserInputs == {UserName[i] : i \in 1..MaxUsers}

OppInputs == {OppName[i] : i \in 1..MaxOpps}

EventCaps == {0, 1, 2}

Availabilities == {{"weeknights"}, {"weekends"}}

FeedbackEvents == {"clicked", "declined"}

\* idx = len(d); while f"{prefix}{idx}" in d: idx += 1
NextId(names, d) ==
  names[SetMin({i \in (Cardinality(DOMAIN d) + 1)..Len(names) : names[i] \notin DOMAIN d})]

\* A thread that returned resp from an RSVP request: the request (route,
\* user_id, event_id) stays readable next to its response
Done(op, user, opp, resp) ==
  [Idle(resp) EXCEPT !.op = op, !.user = user, !.opp = opp]

Start(t, rec) == th' = [th EXCEPT ![t] = rec]

Finish(t, resp) == th' = [th EXCEPT ![t] = Idle(resp)]

FinishRsvp(t, op, user, opp, resp) == th' = [th EXCEPT ![t] = Done(op, user, opp, resp)]

IsIdle(t) == th[t].pc = "idle"

\* `with store.lock:` at the top of a handler: the request waits until the
\* lock is free and takes it; the body of the handler is the next step
Acquire(t) ==
  /\ IsIdle(t) /\ reqs < MaxRequests /\ lock = NoThread
  /\ lock' = t
  /\ Start(t, [Idle(NoResp) EXCEPT !.pc = "cs"])
  /\ UNCHANGED <<store, heap, now, snap, sv>>
  /\ reqs' = reqs + 1

InCS(t) == th[t].pc = "cs" /\ lock = t

\* ------------------------------------------------------------------------
\* api/routes_users.py : upsert_user (no user_id in the request)
\* ------------------------------------------------------------------------
upsert_user(t) ==
  /\ InCS(t)
  /\ Cardinality(DOMAIN store.users) < MaxUsers
  /\ \E av \in Availabilities :
       LET user_id == NextId(UserName, store.users)
       IN /\ store' = [store EXCEPT !.users =
                        Put(@, user_id, [availability |-> av, cohort |-> NoCohort])]
          /\ Finish(t, Resp("OK", 0))
  /\ lock' = NoThread
  /\ UNCHANGED <<heap, now, snap, sv, reqs>>

\* ------------------------------------------------------------------------
\* api/routes_events.py : create_event, update_event
\* ------------------------------------------------------------------------
create_event(t) ==
  /\ InCS(t)
  /\ Cardinality(DOMAIN store.opps) < MaxOpps
  /\ \E cap \in EventCaps, bucket \in TimeBuckets :
       LET event_id == NextId(OppName, store.opps)
           ref == FreshRef(heap)
           s1 == [store EXCEPT !.opps =
                    Put(@, event_id, [capacity |-> cap, time_bucket |-> bucket,
                                      beginner_friendly |-> TRUE])]
       IN /\ store' = _ensure_opp_state(s1, event_id, ref)
          /\ heap' = EnsureHeap(heap, s1, event_id, ref)
          /\ Finish(t, Resp("OK", 0))
  /\ lock' = NoThread
  /\ UNCHANGED <<now, snap, sv, reqs>>

\* store.opps[event_id] = opp.model_copy(update={"capacity": ...}); the
\* RSVP set is not looked at
update_event(t) ==
  /\ InCS(t)
  /\ \E event_id \in OppInputs, cap \in EventCaps :
       IF event_id \notin DOMAIN store.opps
       THEN /\ Finish(t, Resp("404", 0))
            /\ UNCHANGED store
       ELSE /\ store' = [store EXCEPT !.opps[event_id].capacity = cap]
            /\ Finish(t, Resp("OK", 0))
  /\ lock' = NoThread
  /\ UNCHANGED <<heap, now, snap, sv, reqs>>

\* ------------------------------------------------------------------------
\* api/routes_events.py : rsvp ; api/routes_frontend.py : rsvp_event
\* ------------------------------------------------------------------------
RsvpOps == {"rsvp", "rsvp_event"}

\* spots_left <= 0 (rsvp), len(rsvp_set) >= opp.capacity (rsvp_event)
IsFullOffByOne(capacity, rsvp_set) == capacity - Cardinality(rsvp_set) < 0

IsFull(capacity, rsvp_set) == capacity - Cardinality(rsvp_set) <= 0

\* First part of the critical section: the 404 checks, the membership
\* check and the capacity check.  The lock stays held when the request goes
\* on to the insertion; every return releases it.  (RsvpCheckUnlocked is the
\* handler with the check made outside the block that inserts.)
RsvpCheckUnlocked(t) ==
  /\ InCS(t)
  /\ UNCHANGED <<heap, now, snap, sv, reqs>>
  /\ \E op \in RsvpOps, user_id \in UserInputs, event_id \in OppInputs :
        IF event_id \notin DOMAIN store.opps \/ user_id \notin DOMAIN store.users
        THEN /\ FinishRsvp(t, op, user_id, event_id, Resp("404", 0))
             /\ lock' = NoThread
             /\ UNCHANGED store
        ELSE LET s1 == [store EXCEPT !.rsvps = SetDefault(@, event_id, {})]
                 rsvp_set == s1.rsvps[event_id]
                 capacity == store.opps[event_id].capacity
                 spots_left == capacity - Cardinality(rsvp_set)
             IN /\ store' = s1
                /\ IF user_id \in rsvp_set
                   THEN /\ FinishRsvp(t, op, user_id, event_id,
                                  RsvpResponse(op, SuccessStatus(op), Max2(0, spots_left)))
                        /\ lock' = NoThread
                   ELSE IF IsFull(capacity, rsvp_set)
                   THEN /\ FinishRsvp(t, op, user_id, event_id, RsvpResponse(op, "FULL", 0))
                        /\ lock' = NoThread
                   ELSE /\ Start(t, [Idle(NoResp) EXCEPT
                                       !.pc = "rsvp_insert", !.op = op,
                                       !.user = user_id, !.opp = event_id])
                        /\ lock' = NoThread

RsvpCheck(t) ==
  /\ InCS(t)
  /\ UNCHANGED <<heap, now, snap, sv, reqs>>
  /\ \E op \in RsvpOps, user_id \in UserInputs, event_id \in OppInputs :
        IF event_id \notin DOMAIN store.opps \/ user_id \notin DOMAIN store.users
        THEN /\ FinishRsvp(t, op, user_id, event_id, Resp("404", 0))
             /\ lock' = NoThread
             /\ UNCHANGED store
        ELSE LET s1 == [store EXCEPT !.rsvps = SetDefault(@, event_id, {})]
                 rsvp_set == s1.rsvps[event_id]
                 capacity == store.opps[event_id].capacity
                 spots_left == capacity - Cardinality(rsvp_set)
             IN /\ store' = s1
                /\ IF user_id \in rsvp_set
                   THEN /\ FinishRsvp(t, op, user_id, event_id,
                                  RsvpResponse(op, SuccessStatus(op), Max2(0, spots_left)))
                        /\ lock' = NoThread
                   ELSE IF IsFull(capacity, rsvp_set)
                   THEN /\ FinishRsvp(t, op, user_id, event_id, RsvpResponse(op, "FULL", 0))
                        /\ lock' = NoThread
                   ELSE /\ Start(t, [Idle(NoResp) EXCEPT
                                       !.pc = "rsvp_insert", !.op = op,
                                       !.user = user_id, !.opp = event_id])
                        /\ UNCHANGED lock

\* Second part: rsvp_set.add(user_id); spots_left = capacity - len(rsvp_set);
\* the with-block ends and the lock is released
RsvpInsertKeepsLock(t) ==
  /\ th[t].pc = "rsvp_insert"
  /\ LET event_id == th[t].opp
         s1 == [store EXCEPT !.rsvps[event_id] = @ \cup {th[t].user}]
     IN /\ store' = s1
        /\ th' = [th EXCEPT ![t].pc = "fb_wait", ![t].ev = "accepted",
                            ![t].spots_left = s1.opps[event_id].capacity
                                                - Cardinality(s1.rsvps[event_id])]
  /\ UNCHANGED <<lock, heap, now, snap, sv, reqs>>

RsvpInsert(t) ==
  /\ th[t].pc = "rsvp_insert"
  /\ LET event_id == th[t].opp
         s1 == [store EXCEPT !.rsvps[event_id] = @ \cup {th[t].user}]
     IN /\ store' = s1
        /\ th' = [th EXCEPT ![t].pc = "fb_wait", ![t].ev = "accepted",
                            ![t].spots_left = s1.opps[event_id].capacity
                                                - Cardinality(s1.rsvps[event_id])]
  /\ lock' = NoThread
  /\ UNCHANGED <<heap, now, snap, sv, reqs>>

\* ------------------------------------------------------------------------
\* api/routes_frontend.py : unrsvp_event
\* ------------------------------------------------------------------------
unrsvp_eventKeepsUser(t) ==
  /\ InCS(t)
  /\ lock' = NoThread
  /\ UNCHANGED <<heap, now, snap, sv, reqs>>
  /\ \E user_id \in UserInputs, event_id \in OppInputs :
        IF event_id \notin DOMAIN store.opps \/ user_id \notin DOMAIN store.users
        THEN /\ Finish(t, Resp("404", 0))
             /\ UNCHANGED store
        ELSE LET s1 == [store EXCEPT !.rsvps = SetDefault(@, event_id, {})]
             IN /\ store' = s1
                /\ Start(t, [Idle(NoResp) EXCEPT
                              !.pc = "fb_wait", !.op = "unrsvp_event",
                              !.user = user_id, !.opp = event_id, !.ev = "declined",
                              !.spots_left =
                                 Max2(0, store.opps[event_id].capacity
                                           - Cardinality(s1.rsvps[event_id]))])

unrsvp_event(t) ==
  /\ InCS(t)
  /\ lock' = NoThread
  /\ UNCHANGED <<heap, now, snap, sv, reqs>>
  /\ \E user_id \in UserInputs, event_id \in OppInputs :
        IF event_id \notin DOMAIN store.opps \/ user_id \notin DOMAIN store.users
        THEN /\ Finish(t, Resp("404", 0))
             /\ UNCHANGED store
        ELSE LET s1 == [store EXCEPT !.rsvps = SetDefault(@, event_id, {})]
                 s2 == [s1 EXCEPT !.rsvps[event_id] = @ \ {user_id}]
             IN /\ store' = s2
                /\ Start(t, [Idle(NoResp) EXCEPT
                              !.pc = "fb_wait", !.op = "unrsvp_event",
                              !.user = user_id, !.opp = event_id, !.ev = "declined",
                              !.spots_left =
                                 Max2(0, store.opps[event_id].capacity
                                           - Cardinality(s2.rsvps[event_id]))])

\* list_events: participants = list(store.rsvps.get(opp.id, set()))
Participants(st, opp_id) == Get(st.rsvps, opp_id, {})

\* ------------------------------------------------------------------------
\* api/routes_feedback.py : feedback
\* ------------------------------------------------------------------------
FeedbackRoute(t) ==
  /\ IsIdle(t) /\ reqs < MaxRequests
  /\ UNCHANGED <<store, heap, lock, now, snap, sv>>
  /\ \E user \in UserInputs, opp \in OppInputs, ev \in FeedbackEvents :
        IF opp \notin DOMAIN store.opps
        THEN Finish(t, Resp("404", 0))
        ELSE Start(t, [Idle(NoResp) EXCEPT !.pc = "fb_wait", !.op = "feedback",
                                           !.user = user, !.opp = opp, !.ev = ev])
  /\ reqs' = reqs + 1

\* store.record_feedback(...): called with the lock released, takes it itself
RecordFeedbackAcquire(t) ==
  /\ th[t].pc = "fb_wait" /\ lock = NoThread
  /\ lock' = t
  /\ th' = [th EXCEPT ![t].pc = "fb_cs"]
  /\ UNCHANGED <<store, heap, now, snap, sv, reqs>>

\* ... with the interaction log kept within MaxInteractions
FeedbackAcquire(t) ==
  /\ th[t].op = "demo_step" \/ Len(store.interactions) < MaxInteractions
  /\ RecordFeedbackAcquire(t)

\* What the caller of record_feedback returns afterwards.  feedback() reads
\* store.demand_window, which StateStore does not have, and fails.
AfterFeedback(rec) ==
  IF rec.op \in RsvpOps
    THEN RsvpResponse(rec.op, SuccessStatus(rec.op), Max2(0, rec.spots_left))
  ELSE IF rec.op = "unrsvp_event"
    THEN FrontendRSVPResponse("CANCELLED", rec.spots_left)
  ELSE IF rec.op = "record_feedback"
    THEN Resp("OK", 0)
  ELSE Resp("ERROR", 0)

\* step_demo: `for actor_id in actors_added:` calls record_feedback for one
\* actor after the other, then compute_pulses(record_history=True)
NextActor(rec) ==
  IF Len(rec.actors) > 1
  THEN [rec EXCEPT !.pc = "fb_wait", !.actors = Tail(@), !.user = rec.actors[2]]
  ELSE [rec EXCEPT !.pc = IF rec.opps = <<>> THEN "demo_solve" ELSE "cp_write",
                   !.actors = <<>>, !.user = "", !.idx = 1, !.pulses = EmptyMap]

FeedbackCS(t) ==
  /\ th[t].pc = "fb_cs" /\ lock = t
  /\ LET ref == FreshRef(heap)
     IN /\ store' = record_feedback(store, th[t].user, th[t].opp, th[t].ev, ref)
        /\ heap' = EnsureHeap(heap, store, th[t].opp, ref)
  /\ lock' = NoThread
  /\ IF th[t].op = "demo_step"
     THEN th' = [th EXCEPT ![t].pc = "log_rsvp"]
     ELSE Finish(t, AfterFeedback(th[t]))
  /\ UNCHANGED <<now, snap, sv, reqs>>

\* StateStore.log_rsvp(actor_id, event_id), called by step_demo after each
\* record_feedback: path.parent.mkdir(...) and path.open("a") raise OSError
\* when the log file cannot be written; nothing catches it, in log_rsvp or
\* in step_demo, and the request fails
LogWritable == BOOLEAN

log_rsvp(t) ==
  /\ th[t].pc = "log_rsvp"
  /\ \E writable \in LogWritable :
       th' = [th EXCEPT ![t] =
                IF writable THEN NextActor(th[t])
                ELSE [Idle(Resp("ERROR", 0)) EXCEPT !.op = th[t].op, !.opp = th[t].opp,
                                                    !.log_failed = TRUE]]
  /\ UNCHANGED <<store, heap, lock, now, snap, sv, reqs>>

\* ------------------------------------------------------------------------
\* api/routes_solve.py : solve_route (no lock is taken anywhere in it)
\* ------------------------------------------------------------------------
Capacities(opps, opprec) == [o \in Range(opps) |-> opprec[o].capacity]

\* The pricing overrides a client sends: none, or liquidity_k = 0, which
\* makes pulse_from_demand return 50.0 for every opportunity
FlatPricing == [lambda_price |-> pricing_lambda, liquidity_k |-> 0]

SolveRequests == {DefaultSolveRequest, [DefaultSolveRequest EXCEPT !.pricing = FlatPricing]}

\* `if not store.users or not store.opps: raise HTTPException(400)`
StoreEmptyBug(st) == DOMAIN st.users = {} /\ DOMAIN st.opps = {}

StoreEmpty(st) == DOMAIN st.users = {} \/ DOMAIN st.opps = {}

\* build_score_matrix raises AttributeError at `settings.newcomer_boost`
\* (Settings has no such field) in the first iteration that reaches it
NewcomerLabels == {"newcomer", "first_time", "first-time", "new"}

ScoreMatrixRaises(users, profile, opps, opprec) ==
  \E u \in Range(users), o \in Range(opps) :
     /\ profile[u].cohort \in NewcomerLabels
     /\ availability_ok(profile[u], opprec[o])
     /\ opprec[o].beginner_friendly

\* What an idle thread remembers of the solve it finished
SolveDone(rec, resp) ==
  [Idle(resp) EXCEPT !.op = rec.op, !.request = rec.request, !.path = rec.path,
                     !.users = rec.users, !.rates = rec.rates,
                     !.matrix = rec.matrix, !.assignments = rec.assignments]

\* The response of the request before this one, when that was a solve
PrevSolve(rec) ==
  IF rec.pc = "idle" /\ rec.op = "solve"
  THEN [op |-> rec.op, status |-> rec.resp.status, request |-> rec.request,
        path |-> rec.path, users |-> rec.users, rates |-> rec.rates,
        matrix |-> rec.matrix, assignments |-> rec.assignments]
  ELSE NoPrev

\* solver.solve(users, opps, store, ...): build_score_matrix (compute_pulses
\* writes store.prices), then solve_assignment on one of the solver paths
solver_solve(t, base, op, request, users, profile, opps, opprec) ==
  LET capacities == Capacities(opps, opprec)
      pulse_map == PulseMap(store, capacities, request.pricing)
      score_matrix == build_score_matrix(store, users, profile, opps, opprec,
                         pulse_map, request.pricing,
                         request.enable_fairness_boost, request.lambda_fair10)
      explanations == build_explanations(users, profile, opps, opprec)
  IN /\ store' = WritePrices(store, pulse_map)
     /\ IF ScoreMatrixRaises(users, profile, opps, opprec)
        THEN th' = [th EXCEPT ![t] = [Idle(Resp("ERROR", 0)) EXCEPT
                                         !.op = op, !.request = request]]
        ELSE \E path \in SolverPaths :
             \E r \in solve_assignment(path, users, opps, score_matrix, capacities) :
               Start(t, [base EXCEPT
                           !.pc = "sv_publish", !.op = op,
                           !.request = request, !.path = path,
                           !.users = users, !.profile = profile,
                           !.opps = opps, !.opprec = opprec,
                           !.matrix = score_matrix,
                           !.rates = exposure_rates(users, profile,
                                                    store.last_assignment),
                           !.prev = PrevSolve(th[t]),
                           !.explanations = explanations,
                           !.assignments = r.assignments,
                           !.unassigned = r.unassigned])

\* solve_route: the 400 check, then solver.solve
SolveRoute(t, request) ==
  /\ IsIdle(t) /\ reqs < MaxRequests
  /\ UNCHANGED <<heap, lock, now, snap, sv>>
  /\ IF StoreEmpty(store)
     THEN /\ th' = [th EXCEPT ![t] = [Idle(Resp("400", 0)) EXCEPT !.op = "solve"]]
          /\ UNCHANGED store
     ELSE solver_solve(t, Idle(NoResp), "solve", request, KeysInOrder(UserName, store.users),
                       store.users, KeysInOrder(OppName, store.opps), store.opps)
  /\ reqs' = reqs + 1

SolveStart(t) == \E request \in SolveRequests : SolveRoute(t, request)

\* store.last_assignment = [(a.user_id, a.opp_id) for a in assignments]
SolvePublish(t) ==
  /\ th[t].pc = "sv_publish"
  /\ store' = [store EXCEPT !.last_assignment = th[t].assignments]
  /\ th' = [th EXCEPT ![t].pc = IF th[t].op = "demo_step" THEN "demo_rank"
                               ELSE "sv_metrics"]
  /\ UNCHANGED <<heap, lock, now, snap, sv, reqs>>

\* compute_metrics(...) calls compute_pulses(store, capacities) once more,
\* without the overrides of the request; then the response
SolveMetrics(t) ==
  /\ th[t].pc = "sv_metrics"
  /\ store' = WritePrices(store,
                 PulseMap(store, Capacities(th[t].opps, th[t].opprec), NoOverrides))
  /\ th' = [th EXCEPT ![t] = SolveDone(th[t], Resp("OK", 0))]
  /\ UNCHANGED <<heap, lock, now, snap, sv, reqs>>

\* ------------------------------------------------------------------------
\* api/routes_trending.py : trending, and the loop of
\* optimizer/pricing.py : compute_pulses(record_history=True)
\* ------------------------------------------------------------------------
HistoryOf(st, h, o) == IF o \in DOMAIN st.pulse_history THEN h[st.pulse_history[o]] ELSE <<>>

\* The histories the model follows: short ones, and those one entry below
\* the cap or longer
HistoryRoom(st, h) ==
  \A o \in DOMAIN st.opps :
     \/ Len(HistoryOf(st, h, o)) < MaxHistory
     \/ Len(HistoryOf(st, h, o)) >= HistoryCap - 1

\* `if not opps:` in feed and trending (in trending the loops that follow
\* do nothing for an empty list, and the items are empty either way)
NoOppsBug(st) == FALSE

NoOpps(st) == DOMAIN st.opps = {}

\* The items of a TrendingResponse: one per opportunity, with the last
\* pulse of its history and the difference to the one before
TrendingItem(st, h, o) ==
  LET history == HistoryOf(st, h, o)
      n == Len(history)
  IN [event_id |-> o,
      pulse |-> IF n >= 1 THEN history[n][2] ELSE Get(st.prices, o, 5000),
      pulse_delta |-> IF n >= 2 THEN history[n][2] - history[n - 1][2] ELSE 0]

\* items.sort(key=lambda item: item.pulse_delta, reverse=True): stable
SortByDeltaDesc(items) ==
  LET n == Len(items)
      before(i, j) == \/ items[i].pulse_delta > items[j].pulse_delta
                      \/ items[i].pulse_delta = items[j].pulse_delta /\ i < j
      pos(i) == 1 + Cardinality({j \in 1..n : j # i /\ before(j, i)})
  IN [k \in 1..n |-> items[CHOOSE i \in 1..n : pos(i) = k]]

TrendingItems(st, h, opps) ==
  SortByDeltaDesc([k \in DOMAIN opps |-> TrendingItem(st, h, opps[k])])

TrendingStart(t) ==
  /\ IsIdle(t) /\ reqs < MaxRequests
  /\ UNCHANGED <<store, heap, lock, now, snap, sv>>
  /\ LET opps == KeysInOrder(OppName, store.opps)
     IN IF NoOpps(store)
        THEN th' = [th EXCEPT ![t] = [Idle(ItemsResponse(<<>>)) EXCEPT !.op = "trending"]]
        ELSE IF opps = <<>>
        THEN th' = [th EXCEPT ![t] =
                      [Idle(ItemsResponse(TrendingItems(store, heap, opps)))
                         EXCEPT !.op = "trending"]]
        ELSE /\ HistoryRoom(store, heap)
             /\ Start(t, [Idle(NoResp) EXCEPT
                            !.pc = "cp_write", !.op = "trending",
                            !.opps = opps, !.opprec = store.opps, !.idx = 1])
  /\ reqs' = reqs + 1

\* One iteration, first half: store.prices[opp_id] = pulse, then
\* history = store.pulse_history.get(opp_id, []); history.append((now, pulse))
CpWrite(t) ==
  /\ th[t].pc = "cp_write"
  /\ LET opp_id == th[t].opps[th[t].idx]
         pulse == PulseOf(store, get_pricing_config(th[t].request.pricing), opp_id,
                          th[t].opprec[opp_id].capacity)
         ts == IF th[t].idx = 1 THEN now ELSE th[t].ts
         ref == IF opp_id \in DOMAIN store.pulse_history
                THEN store.pulse_history[opp_id] ELSE FreshRef(heap)
         history == IF ref \in DOMAIN heap THEN heap[ref] ELSE <<>>
     IN /\ store' = [store EXCEPT !.prices = Put(@, opp_id, pulse)]
        /\ heap' = Put(heap, ref, Append(history, <<ts, pulse>>))
        /\ th' = [th EXCEPT ![t].pc = "cp_trim", ![t].href = ref, ![t].ts = ts,
                             ![t].pulses = Put(@, opp_id, pulse)]
  /\ UNCHANGED <<lock, now, snap, sv, reqs>>

LastN(s, n) == IF Len(s) <= n THEN s ELSE SubSeq(s, Len(s) - n + 1, Len(s))

\* Second half: if len(history) > 50: history = history[-50:]; then
\* store.pulse_history[opp_id] = history
CpTrim(t) ==
  /\ th[t].pc = "cp_trim"
  /\ LET opp_id == th[t].opps[th[t].idx]
         history == heap[th[t].href]
         trimmed == Len(history) > HistoryCap
         ref == IF trimmed THEN FreshRef(heap) ELSE th[t].href
         h1 == IF trimmed THEN Put(heap, ref, LastN(history, HistoryCap)) ELSE heap
         s1 == [store EXCEPT !.pulse_history = Put(@, opp_id, ref)]
         done == th[t].idx >= Len(th[t].opps)
         th1 == IF ~done
                THEN [th EXCEPT ![t].pc = "cp_write", ![t].idx = @ + 1, ![t].href = 0]
                ELSE IF th[t].op = "rebalance"
                THEN [th EXCEPT ![t].pc = "rb_solve", ![t].idx = 0, ![t].href = 0]
                ELSE IF th[t].op = "demo_step"
                THEN [th EXCEPT ![t].pc = "demo_solve", ![t].idx = 0, ![t].href = 0,
                                ![t].after_pulse =
                                   Get(th[t].pulses, th[t].opp, th[t].before_pulse)]
                ELSE IF th[t].op = "demo_setup"
                THEN [th EXCEPT ![t] = [Idle(Resp("OK", 0)) EXCEPT !.op = "demo_setup"]]
                ELSE [th EXCEPT ![t] =
                        [Idle(ItemsResponse(TrendingItems(s1, h1, th[t].opps)))
                           EXCEPT !.op = "trending"]]
     IN /\ store' = s1
        /\ th' = th1
        /\ heap' = Collect(h1, s1, snap, th1)
  /\ UNCHANGED <<lock, now, snap, sv, reqs>>

\* ------------------------------------------------------------------------
\* api/routes_rebalance.py : rebalance
\* ------------------------------------------------------------------------
\* The 400 check, then compute_pulses(record_history=True) with the
\* request's pricing overrides
RebalanceStart(t) ==
  /\ IsIdle(t) /\ reqs < MaxRequests
  /\ UNCHANGED <<store, heap, lock, now, snap, sv>>
  /\ \E request \in SolveRequests :
       IF StoreEmpty(store)
       THEN th' = [th EXCEPT ![t] = [Idle(Resp("400", 0)) EXCEPT !.op = "rebalance"]]
       ELSE /\ HistoryRoom(store, heap)
            /\ Start(t, [Idle(NoResp) EXCEPT
                           !.pc = IF DOMAIN store.opps = {} THEN "rb_solve"
                                  ELSE "cp_write",
                           !.op = "rebalance",
                           !.request = request,
                           !.users = KeysInOrder(UserName, store.users),
                           !.profile = store.users,
                           !.opps = KeysInOrder(OppName, store.opps),
                           !.opprec = store.opps, !.idx = 1])
  /\ reqs' = reqs + 1

\* solver.solve(...) after the pulses were recorded; SolvePublish and
\* SolveMetrics follow as in solve_route
RebalanceSolve(t) ==
  /\ th[t].pc = "rb_solve"
  /\ solver_solve(t, Idle(NoResp), "rebalance", th[t].request, th[t].users, th[t].profile,
                  th[t].opps, th[t].opprec)
  /\ UNCHANGED <<heap, lock, now, snap, sv, reqs>>

\* ------------------------------------------------------------------------
\* api/routes_feed.py : feed
\* ------------------------------------------------------------------------
\* 404 for an unknown user, empty items when there is no opportunity;
\* otherwise build_score_matrix([user], opps, store) (compute_pulses writes
\* store.prices) and then `settings.cold_start_shown_threshold`, a field
\* Settings does not have: the request fails with AttributeError
feed(t) ==
  /\ IsIdle(t) /\ reqs < MaxRequests
  /\ UNCHANGED <<heap, lock, now, snap, sv>>
  /\ \E user_id \in UserInputs :
       IF user_id \notin DOMAIN store.users
       THEN /\ th' = [th EXCEPT ![t] = Done("feed", user_id, "", Resp("404", 0))]
            /\ UNCHANGED store
       ELSE IF NoOpps(store)
       THEN /\ th' = [th EXCEPT ![t] = Done("feed", user_id, "", ItemsResponse(<<>>))]
            /\ UNCHANGED store
       ELSE LET opps == KeysInOrder(OppName, store.opps)
            IN /\ store' = WritePrices(store,
                              PulseMap(store, Capacities(opps, store.opps), NoOverrides))
               /\ th' = [th EXCEPT ![t] = Done("feed", user_id, "", Resp("ERROR", 0))]
  /\ reqs' = reqs + 1

\* ------------------------------------------------------------------------
\* api/routes_demo.py : step_demo
\* ------------------------------------------------------------------------
ActorId(event_id, n) == "demo_actor_" \o event_id \o "_" \o ToString(n)

_seed_step_queue(event_id, start_index, count) ==
  [i \in 1..count |-> ActorId(event_id, start_index + i - 1)]

\* the key of store.net_demand with the largest value, the first one on a tie
MaxDemandKey(st) ==
  LET keys == KeysInOrder(OppName, st.net_demand)
  IN IF keys = <<>> THEN ""
     ELSE keys[CHOOSE i \in DOMAIN keys :
                 /\ \A j \in DOMAIN keys : st.net_demand[keys[j]] <= st.net_demand[keys[i]]
                 /\ \A j \in 1..(i - 1) : st.net_demand[keys[j]] < st.net_demand[keys[i]]]

\* _resolve_demo_event_id; requested "" is None.  "404" and "400" stand for
\* the HTTPException raised
_resolve_demo_event_id(st, requested) ==
  IF requested # ""
  THEN IF requested \notin DOMAIN st.opps THEN "404" ELSE requested
  ELSE IF st.demo_hot_event_id # "" /\ st.demo_hot_event_id \in DOMAIN st.opps
  THEN st.demo_hot_event_id
  ELSE IF MaxDemandKey(st) # "" /\ MaxDemandKey(st) \in DOMAIN st.opps
  THEN MaxDemandKey(st)
  ELSE IF DOMAIN st.opps = {} THEN "400"
  ELSE KeysInOrder(OppName, st.opps)[1]

\* The request of a demo step: mode, hot_event_id, rsvps_per_step
DemoModes == {"hot", "random"}

DemoStepSizes == {1, 2}

\* What an idle thread remembers of a demo step: the response, and the
\* rsvp_count of the response before it
DemoDone(rec, resp) ==
  [Idle(resp) EXCEPT !.op = "demo_step", !.opp = rec.opp,
                     !.before_pulse = rec.before_pulse,
                     !.after_pulse = rec.after_pulse,
                     !.rsvp_count = rec.rsvp_count,
                     !.prev_rsvp_count = rec.prev_rsvp_count,
                     !.opprec = rec.opprec]

\* step_demo up to `with store.lock:` : the 400 check, the event, and
\* before_pulses = compute_pulses(store, capacities)
DemoStepStart(t) ==
  /\ IsIdle(t) /\ reqs < MaxRequests
  /\ UNCHANGED <<heap, lock, now, snap, sv>>
  /\ \E mode \in DemoModes, requested \in {""} \cup OppInputs, n \in DemoStepSizes :
       LET hot_event_id == _resolve_demo_event_id(store, requested)
           opps == KeysInOrder(OppName, store.opps)
           available_ids == {o \in Range(opps) :
                               Cardinality(Get(store.rsvps, o, {})) < store.opps[o].capacity}
           events == IF mode = "random" /\ available_ids # {} THEN available_ids
                     ELSE {hot_event_id}
           before_pulses == PulseMap(store, Capacities(opps, store.opps), NoOverrides)
       IN IF StoreEmpty(store)
          THEN /\ th' = [th EXCEPT ![t] = [Idle(Resp("400", 0)) EXCEPT !.op = "demo_step"]]
               /\ UNCHANGED store
          ELSE IF hot_event_id \in {"404", "400"}
          THEN /\ th' = [th EXCEPT ![t] = [Idle(Resp(hot_event_id, 0)) EXCEPT !.op = "demo_step"]]
               /\ UNCHANGED store
          ELSE \E event_id \in events :
                 /\ store' = WritePrices(store, before_pulses)
                 /\ Start(t, [Idle(NoResp) EXCEPT
                                !.pc = "demo_wait", !.op = "demo_step",
                                !.opp = event_id, !.ev = "accepted",
                                !.rsvps_per_step = n,
                                !.opps = opps, !.opprec = store.opps,
                                !.before_pulse = Get(before_pulses, event_id, 5000),
                                !.prev_rsvp_count =
                                   IF th[t].op = "demo_step" /\ th[t].opp = event_id
                                   THEN th[t].rsvp_count ELSE 0])
  /\ reqs' = reqs + 1

DemoAcquire(t) ==
  /\ th[t].pc = "demo_wait" /\ lock = NoThread
  /\ lock' = t
  /\ th' = [th EXCEPT ![t].pc = "demo_cs"]
  /\ UNCHANGED <<store, heap, now, snap, sv, reqs>>

\* `for _ in range(request.rsvps_per_step):` ; c is the state of the loop:
\* queue, demo_actor_seq, rsvp_set, actors_added
RECURSIVE DemoLoop(_, _, _, _, _)
DemoLoop(n, c, event_id, capacity, refill_size) ==
  IF n = 0 \/ Cardinality(c.rsvp_set) >= capacity THEN c
  ELSE LET refilled == IF c.queue = <<>>
                       THEN [c EXCEPT !.queue = _seed_step_queue(event_id, c.seq, refill_size),
                                      !.seq = @ + refill_size]
                       ELSE c
           actor_id == Head(refilled.queue)
           popped == [refilled EXCEPT !.queue = Tail(@)]
       IN IF actor_id \in popped.rsvp_set
          THEN DemoLoop(n - 1, popped, event_id, capacity, refill_size)
          ELSE DemoLoop(n - 1,
                        [popped EXCEPT !.rsvp_set = @ \cup {actor_id},
                                       !.actors_added = Append(@, actor_id)],
                        event_id, capacity, refill_size)

\* The body of `with store.lock:` in step_demo
DemoCS(t) ==
  /\ th[t].pc = "demo_cs" /\ lock = t
  /\ LET event_id == th[t].opp
         capacity == th[t].opprec[event_id].capacity
         refill_size == Max2(20, capacity * 4)
         queue == Get(store.demo_step_queue, event_id, <<>>)
         short == Len(queue) < th[t].rsvps_per_step
         c0 == [queue |-> IF short
                          THEN queue \o _seed_step_queue(event_id, store.demo_actor_seq,
                                                         refill_size)
                          ELSE queue,
                seq |-> IF short THEN store.demo_actor_seq + refill_size
                        ELSE store.demo_actor_seq,
                rsvp_set |-> Get(store.rsvps, event_id, {}),
                actors_added |-> <<>>]
         c == DemoLoop(th[t].rsvps_per_step, c0, event_id, capacity, refill_size)
         rec == [th[t] EXCEPT !.actors = c.actors_added,
                              !.rsvp_count = Cardinality(c.rsvp_set),
                              !.user = IF c.actors_added = <<>> THEN ""
                                       ELSE c.actors_added[1]]
     IN /\ store' = [store EXCEPT
                       !.demo_step_queue = Put(@, event_id, c.queue),
                       !.demo_actor_seq = c.seq,
                       !.rsvps = Put(@, event_id, c.rsvp_set),
                       !.demo_step_counts =
                          Put(Put(@, event_id, Get(@, event_id, 0) + 1),
                              "__global__", Get(@, "__global__", 0) + 1)]
        /\ th' = [th EXCEPT ![t] =
                    IF c.actors_added = <<>>
                    THEN [rec EXCEPT !.pc = "cp_write", !.idx = 1, !.pulses = EmptyMap]
                    ELSE [rec EXCEPT !.pc = "fb_wait"]]
  /\ lock' = NoThread
  /\ UNCHANGED <<heap, now, snap, sv, reqs>>

\* solver.solve(users, opps, store) with the users read at this point
DemoSolve(t) ==
  /\ th[t].pc = "demo_solve"
  /\ solver_solve(t, th[t], "demo_step", DefaultSolveRequest,
                  KeysInOrder(UserName, store.users), store.users,
                  th[t].opps, th[t].opprec)
  /\ UNCHANGED <<heap, lock, now, snap, sv, reqs>>

\* _hot_event_rankings: build_score_matrix for the demo users that are in
\* the store (compute_pulses writes store.prices; the lambda_price of
\* demo_pricing_overrides does not enter a pulse), then the response
DemoRank(t) ==
  /\ th[t].pc = "demo_rank"
  /\ LET demo_user_ids == SelectSeq(store.demo_user_ids, LAMBDA u : u \in DOMAIN store.users)
         opps == KeysInOrder(OppName, store.opps)
     IN IF demo_user_ids = <<>>
        THEN /\ th' = [th EXCEPT ![t] = DemoDone(th[t], Resp("OK", 0))]
             /\ UNCHANGED store
        ELSE /\ store' = WritePrices(store,
                            PulseMap(store, Capacities(opps, store.opps), NoOverrides))
             /\ th' = [th EXCEPT ![t] =
                         DemoDone(th[t],
                            IF ScoreMatrixRaises(demo_user_ids, store.users, opps, store.opps)
                            THEN Resp("ERROR", 0) ELSE Resp("OK", 0))]
  /\ UNCHANGED <<heap, lock, now, snap, sv, reqs>>

\* ------------------------------------------------------------------------
\* api/routes_seed.py : seed ; StateStore.load_fixture, generate_synthetic
\* ------------------------------------------------------------------------
\* The fixture files a client can name: a path that does not exist, a file
\* that is not JSON, a file with a user entry that fails User.model_validate,
\* a file with valid users and an opportunity entry that fails
\* Opportunity.model_validate, and a valid file
FixturePaths == {"missing", "malformed", "bad_user", "bad_opp", "good"}

FileExists(path) == path # "missing"

ParsesAsJson(path) == path # "malformed"

\* payload.get("users"), payload.get("opps"): entries with their id, whether
\* model_validate accepts them, and the validated object
FixtureUsers(path) ==
  <<[id |-> UserName[1], valid |-> path # "bad_user",
     rec |-> [availability |-> {"weeknights"}, cohort |-> NoCohort]]>>

FixtureOpps(path) ==
  <<[id |-> OppName[1], valid |-> path # "bad_opp",
     rec |-> [capacity |-> 1, time_bucket |-> "weeknights", beginner_friendly |-> TRUE]]>>

AllValid(entries) == \A i \in DOMAIN entries : entries[i].valid

\* {e["id"]: Model.model_validate(e) for e in entries}
ById(entries) ==
  [id \in {entries[i].id : i \in DOMAIN entries} |->
      entries[CHOOSE i \in DOMAIN entries : entries[i].id = id /\
                 \A j \in DOMAIN entries : entries[j].id = id => j <= i].rec]

\* The statements of load_fixture / generate_synthetic after self.users and
\* self.opps are assigned: every other field is reset, then
\* _ensure_opp_state for each opportunity (refs: the new empty lists)
ResetPerOppState(st, refs) ==
  LET ids == DOMAIN st.opps
  IN [EmptyStore EXCEPT
        !.users = st.users, !.opps = st.opps,
        !.prices = [o \in ids |-> 0],
        !.net_demand = [o \in ids |-> 0],
        !.last_demand_ts = [o \in ids |-> now],
        !.shown_window = [o \in ids |-> 0],
        !.rsvps = [o \in ids |-> {}],
        !.pulse_history = [o \in ids |-> refs[o]]]

\* one new list object per opportunity
NewLists(h, ids) ==
  LET free == {r \in 1..(Cardinality(DOMAIN h) + Cardinality(ids)) : r \notin DOMAIN h}
      index(o) == CHOOSE i \in DOMAIN OppName : OppName[i] = o
      rank(o) == Cardinality({x \in ids : index(x) < index(o)})
  IN [o \in ids |-> CHOOSE r \in free : Cardinality({x \in free : x < r}) = rank(o)]

WithLists(h, refs) ==
  [r \in DOMAIN h \cup Range(refs) |-> IF r \in DOMAIN h THEN h[r] ELSE <<>>]

\* What an idle thread remembers of a seed request
SeedDone(path, resp) == [Idle(resp) EXCEPT !.op = "seed", !.fixture = path]

\* seed, up to `with self.lock:` : mode "fixture" reads and parses the file
\* (FileNotFoundError becomes 404, a JSON error propagates), mode
\* "synthetic" generates the data
SeedRoute(t) ==
  /\ IsIdle(t) /\ reqs < MaxRequests
  /\ UNCHANGED <<store, heap, lock, now, snap, sv>>
  /\ \E path \in FixturePaths \cup {"synthetic"} :
       IF path # "synthetic" /\ ~FileExists(path)
       THEN th' = [th EXCEPT ![t] = SeedDone(path, Resp("404", 0))]
       ELSE IF path # "synthetic" /\ ~ParsesAsJson(path)
       THEN th' = [th EXCEPT ![t] = SeedDone(path, Resp("ERROR", 0))]
       ELSE Start(t, [Idle(NoResp) EXCEPT !.pc = "seed_wait", !.op = "seed",
                                          !.fixture = path])
  /\ reqs' = reqs + 1

SeedAcquire(t) ==
  /\ th[t].pc = "seed_wait" /\ lock = NoThread
  /\ lock' = t
  /\ th' = [th EXCEPT ![t].pc = "seed_cs"]
  /\ UNCHANGED <<store, heap, now, snap, sv, reqs>>

\* load_fixture, the body of `with self.lock:`.  self.users is assigned
\* before the opportunities are validated; an exception leaves the block
\* (and releases the lock) at the statement that raised
load_fixture(t) ==
  /\ th[t].pc = "seed_cs" /\ lock = t /\ th[t].fixture # "synthetic"
  /\ LET path == th[t].fixture
         users == FixtureUsers(path)
         opps == FixtureOpps(path)
         s1 == [store EXCEPT !.users = ById(users)]
         s2 == [s1 EXCEPT !.opps = ById(opps)]
         refs == NewLists(heap, DOMAIN s2.opps)
         s3 == ResetPerOppState(s2, refs)
     IN IF ~AllValid(users)
        THEN /\ th' = [th EXCEPT ![t] = SeedDone(path, Resp("ERROR", 0))]
             /\ UNCHANGED <<store, heap>>
        ELSE IF ~AllValid(opps)
        THEN /\ th' = [th EXCEPT ![t] = SeedDone(path, Resp("ERROR", 0))]
             /\ store' = s1
             /\ UNCHANGED heap
        ELSE /\ th' = [th EXCEPT ![t] = SeedDone(path, Resp("OK", 0))]
             /\ store' = s3
             /\ heap' = Collect(WithLists(heap, refs), s3, snap, th')
  /\ lock' = NoThread
  /\ UNCHANGED <<now, snap, sv, reqs>>

\* generate_synthetic(num_users = 1, num_opps = 1), the body of the lock
generate_synthetic(t) ==
  /\ th[t].pc = "seed_cs" /\ lock = t /\ th[t].fixture = "synthetic"
  /\ \E av \in Availabilities, bucket \in TimeBuckets :
       LET s2 == [store EXCEPT
                    !.users = [u \in {UserName[1]} |->
                                 [availability |-> av, cohort |-> NoCohort]],
                    !.opps = [o \in {OppName[1]} |->
                                 [capacity |-> 5, time_bucket |-> bucket,
                                  beginner_friendly |-> TRUE]]]
           refs == NewLists(heap, DOMAIN s2.opps)
           s3 == ResetPerOppState(s2, refs)
       IN /\ th' = [th EXCEPT ![t] = SeedDone("synthetic", Resp("OK", 0))]
          /\ store' = s3
          /\ heap' = Collect(WithLists(heap, refs), s3, snap, th')
  /\ lock' = NoThread
  /\ UNCHANGED <<now, snap, sv, reqs>>

\* ------------------------------------------------------------------------
\* api/routes_state.py : state ; StateStore.snapshot
\* ------------------------------------------------------------------------
snapshot(t) ==
  /\ InCS(t)
  /\ snap' = [taken |-> TRUE, view |-> SnapshotCopy(store)]
  /\ lock' = NoThread
  /\ Finish(t, Resp("OK", 0))
  /\ heap' = Collect(heap, store, snap', th')
  /\ UNCHANGED <<store, now, sv, reqs>>

\* What the holder of the snapshot reads in it
SnapView ==
  [snap.view EXCEPT !.pulse_history =
     [o \in DOMAIN snap.view.pulse_history |-> heap[snap.view.pulse_history[o]]]]

\* ------------------------------------------------------------------------
\* Specifications
\* ------------------------------------------------------------------------
\* Handlers whose store accesses are all inside `with store.lock:`
LockedRequest(t) ==
  \/ Acquire(t)
  \/ upsert_user(t) \/ create_event(t) \/ update_event(t)
  \/ RsvpCheck(t) \/ RsvpInsert(t) \/ unrsvp_event(t)
  \/ FeedbackRoute(t) \/ FeedbackAcquire(t) \/ FeedbackCS(t)

\* Handlers that read and write the store without taking the lock
UnlockedRequest(t) ==
  \/ SolveStart(t) \/ SolvePublish(t) \/ SolveMetrics(t)
  \/ TrendingStart(t) \/ CpWrite(t) \/ CpTrim(t)

\* The read routes and the two solving routes of one client
RoutesNext ==
  \/ Acquire(1) \/ upsert_user(1) \/ create_event(1)
  \/ FeedbackRoute(1) \/ FeedbackAcquire(1) \/ FeedbackCS(1)
  \/ SolveStart(1) \/ SolvePublish(1) \/ SolveMetrics(1)
  \/ RebalanceStart(1) \/ RebalanceSolve(1)
  \/ TrendingStart(1) \/ CpWrite(1) \/ CpTrim(1)
  \/ feed(1)

SpecRoutes == Init /\ [][RoutesNext]_vars

\* Seeding: the file is read outside the lock, the store replaced inside
SeedRequest(t) ==
  \/ SeedRoute(t) \/ SeedAcquire(t) \/ load_fixture(t) \/ generate_synthetic(t)

\* One client issuing requests one after the other
Next == LockedRequest(1) \/ UnlockedRequest(1)

Spec == Init /\ [][Next]_vars

\* One client that creates users and events and seeds the store
SeedNext ==
  \/ Acquire(1) \/ upsert_user(1) \/ create_event(1) \/ update_event(1)
  \/ SeedRequest(1)

SpecSeed == Init /\ [][SeedNext]_vars

\* Concurrent requests on the locking handlers
ConcNext == \E t \in Threads : LockedRequest(t)

SpecConc == Init /\ [][ConcNext]_vars

\* One client that also takes snapshots of the state
SnapNext ==
  \/ Acquire(1) \/ upsert_user(1) \/ create_event(1) \/ RsvpCheck(1) \/ RsvpInsert(1)
  \/ FeedbackAcquire(1) \/ FeedbackCS(1)
  \/ TrendingStart(1) \/ CpWrite(1) \/ CpTrim(1)
  \/ snapshot(1)

SpecSnap == Init /\ [][SnapNext]_vars

\* ------------------------------------------------------------------------
\* Direct calls of solve_assignment (as tests/test_solver.py makes them)
\* ------------------------------------------------------------------------
SolverCaps == {-1, 0, 1, 2}

SolverScores == {-5, 500}

Prefix(s, n) == SubSeq(s, 1, n)

ScoreRows(opps) == UNION {[S -> SolverScores] : S \in SUBSET Range(opps)}

SolverInit ==
  /\ store = EmptyStore /\ heap = EmptyMap /\ lock = NoThread /\ now = 0
  /\ th = [t \in Threads |-> Idle(NoResp)]
  /\ snap = NoSnap
  /\ reqs = 0
  /\ \E n \in 0..MaxSolverUsers, m \in 0..MaxSolverOpps :
       LET users == Prefix(UserName, n)
           opps == Prefix(OppName, m)
       IN \E matrix \in [Range(users) -> ScoreRows(opps)],
             capacities \in [Range(opps) -> SolverCaps] :
            sv = [SvIdle EXCEPT !.pc = "ready", !.users = users, !.opps = opps,
                                !.matrix = matrix, !.capacities = capacities]

SolveWith(path) ==
  /\ sv.pc = "ready"
  /\ \E r \in solve_assignment(path, sv.users, sv.opps, sv.matrix, sv.capacities) :
        sv' = [sv EXCEPT !.pc = "solved", !.path = path,
                         !.assignments = r.assignments, !.unassigned = r.unassigned]
  /\ UNCHANGED <<store, heap, lock, now, th, snap, reqs>>

SolveOrtools == SolveWith("ortools")

SolveNetworkx == SolveWith("networkx")

SolveGreedy == SolveWith("greedy")

SolverNext == SolveOrtools \/ SolveNetworkx \/ SolveGreedy

SpecSolver == SolverInit /\ [][SolverNext]_vars

\* The two min-cost-flow paths on matrices that also hold a score below
\* -0.01, whose cost exceeds the cost of the fallback arc after rounding
FlowScores == {-20, -5, 500}

FlowRows(opps) == UNION {[S -> FlowScores] : S \in SUBSET Range(opps)}

FlowInit ==
  /\ store = EmptyStore /\ heap = EmptyMap /\ lock = NoThread /\ now = 0
  /\ th = [t \in Threads |-> Idle(NoResp)]
  /\ snap = NoSnap
  /\ reqs = 0
  /\ \E n \in 0..MaxSolverUsers, m \in 0..MaxSolverOpps :
       LET users == Prefix(UserName, n)
           opps == Prefix(OppName, m)
       IN \E matrix \in [Range(users) -> FlowRows(opps)],
             capacities \in [Range(opps) -> SolverCaps] :
            sv = [SvIdle EXCEPT !.pc = "ready", !.users = users, !.opps = opps,
                                !.matrix = matrix, !.capacities = capacities]

FlowNext == SolveOrtools \/ SolveNetworkx

SpecFlow == FlowInit /\ [][FlowNext]_vars

\* solve_assignment with the outcome of each library as an input: the
\* import or the solve of OR-Tools raises (any Exception), or Solve()
\* returns a status other than OPTIMAL, or it succeeds; NetworkX raises or
\* returns a flow
OrtoolsOutcomes == {"raises", "not_optimal", "optimal"}

NetworkxOutcomes == {"raises", "solved"}

\* The code that produces the result: `except Exception` around the
\* OR-Tools call leads to NetworkX, `except Exception` around that one to
\* _solve_greedy; a non-optimal status returns _solve_greedy directly
SolverPathOfUncaught(ort, nx) ==
  IF ort = "optimal" THEN "ortools"
  ELSE IF ort = "not_optimal" THEN "greedy"
  ELSE IF nx = "solved" THEN "networkx"
  ELSE "error"

SolverPathOf(ort, nx) ==
  IF ort = "optimal" THEN "ortools"
  ELSE IF ort = "not_optimal" THEN "greedy"
  ELSE IF nx = "solved" THEN "networkx"
  ELSE "greedy"

solve_assignment_call ==
  /\ sv.pc = "ready"
  /\ \E ort \in OrtoolsOutcomes, nx \in NetworkxOutcomes :
       LET path == SolverPathOf(ort, nx)
       IN IF path \notin SolverPaths
          THEN sv' = [sv EXCEPT !.pc = "error", !.path = path,
                                !.ortools = ort, !.networkx = nx]
          ELSE \E r \in solve_assignment(path, sv.users, sv.opps, sv.matrix,
                                         sv.capacities) :
                  sv' = [sv EXCEPT !.pc = "solved", !.path = path,
                                   !.ortools = ort, !.networkx = nx,
                                   !.assignments = r.assignments,
                                   !.unassigned = r.unassigned]
  /\ UNCHANGED <<store, heap, lock, now, th, snap, reqs>>

SpecDegrade == SolverInit /\ [][solve_assignment_call]_vars

\* ------------------------------------------------------------------------
\* optimizer/solver.py : build_recommendations
\* ------------------------------------------------------------------------
\* Recommendation.primary = None
NoPrimary == "None"

\* s[:k] of a Python list: the first k items, or all but the last -k
PySlice(s, k) ==
  IF k >= 0 THEN SubSeq(s, 1, Min2(k, Len(s)))
  ELSE SubSeq(s, 1, Max2(0, Len(s) + k))

\* assigned = {user_id: opp_id for user_id, opp_id in assignments}; scored
\* is the row sorted by descending score (a stable sort of the row's
\* insertion order); primary = assigned.get(user.id) or (scored[0][0] if
\* scored else None); alternatives = [opp_id for opp_id, _ in scored if
\* opp_id != primary][:top_k]
build_recommendations(users, opps, score_matrix, assignments, top_k) ==
  [u \in Range(users) |->
     LET row == Get(score_matrix, u, EmptyMap)
         scored == SortedChoices(RowOrder(opps, row), row)
         ks == {k \in DOMAIN assignments : assignments[k][1] = u}
         primary == IF ks # {} THEN assignments[SetMax(ks)][2]
                    ELSE IF scored # <<>> THEN scored[1]
                    ELSE NoPrimary
     IN [primary |-> primary,
         alternatives |-> PySlice(SelectSeq(scored, LAMBDA o : o # primary), top_k)]]

\* SolveRequest.return_top_k_alternatives: int = 3, any integer is accepted
TopKs == {-1, 0, 1, 3}

RecCaps == {0, 1}

RecsInit ==
  /\ store = EmptyStore /\ heap = EmptyMap /\ lock = NoThread /\ now = 0
  /\ th = [t \in Threads |-> Idle(NoResp)]
  /\ snap = NoSnap
  /\ reqs = 0
  /\ \E n \in 1..MaxSolverUsers, m \in 0..MaxRecOpps :
       LET users == Prefix(UserName, n)
           opps == Prefix(OppName, m)
       IN \E matrix \in [Range(users) -> ScoreRows(opps)],
             capacities \in [Range(opps) -> RecCaps] :
            sv = [SvIdle EXCEPT !.pc = "ready", !.users = users, !.opps = opps,
                                !.matrix = matrix, !.capacities = capacities]

\* solve(): recommendations = build_recommendations(users, score_matrix,
\* assignments_raw, top_k)
build_recommendations_call ==
  /\ sv.pc = "solved"
  /\ \E top_k \in TopKs :
       sv' = [sv EXCEPT !.pc = "recommended", !.top_k = top_k,
                        !.recommendations =
                           build_recommendations(sv.users, sv.opps, sv.matrix,
                                                 sv.assignments, top_k)]
  /\ UNCHANGED <<store, heap, lock, now, th, snap, reqs>>

RecsNext == SolveOrtools \/ SolveNetworkx \/ SolveGreedy \/ build_recommendations_call

SpecRecs == RecsInit /\ [][RecsNext]_vars

\* ------------------------------------------------------------------------
\* Direct calls of compute_pulses on a store with one event
\* ------------------------------------------------------------------------
\* net demand of the event, in tenths
PricingNets == {-1000, -30, -5, 0, 2, 10, 60, 1000}

PricingCaps == {-1, 0, 1, 2}

\* the liquidity_k of the overrides; lambda_price does not enter a pulse
PricingLiquidity == {-1, 0, 1, pricing_liquidity_k}

\* The store after create_event / update_event and feedback that left the
\* event with the given capacity and net demand
OneEventStore(cap, net) ==
  LET o == OppName[1]
      s1 == [EmptyStore EXCEPT !.opps =
               Put(@, o, [capacity |-> cap, time_bucket |-> "weeknights",
                          beginner_friendly |-> TRUE])]
  IN [_ensure_opp_state(s1, o, 1) EXCEPT !.net_demand[o] = net]

PricingInit ==
  /\ heap = Put(EmptyMap, 1, <<>>) /\ lock = NoThread /\ now = 0
  /\ th = [t \in Threads |-> Idle(NoResp)]
  /\ snap = NoSnap /\ sv = SvIdle
  /\ reqs = 0
  /\ \E cap \in PricingCaps, net \in PricingNets : store = OneEventStore(cap, net)

\* compute_pulses(store, capacities, overrides): the prices are written and
\* the map returned to the caller
compute_pulses(t) ==
  /\ IsIdle(t) /\ reqs < MaxRequests
  /\ \E k \in PricingLiquidity :
       LET overrides == [NoOverrides EXCEPT !.liquidity_k = k]
           opps == KeysInOrder(OppName, store.opps)
           pulses == PulseMap(store, Capacities(opps, store.opps), overrides)
       IN /\ store' = WritePrices(store, pulses)
          /\ th' = [th EXCEPT ![t] =
                      [Idle(Resp("OK", 0)) EXCEPT
                         !.op = "compute_pulses", !.pulses = pulses, !.ts = now,
                         !.request = [DefaultSolveRequest EXCEPT !.pricing = overrides]]]
  /\ reqs' = reqs + 1
  /\ UNCHANGED <<heap, lock, now, snap, sv>>

PricingNext == compute_pulses(1)

SpecPricing == PricingInit /\ [][PricingNext]_vars

\* ------------------------------------------------------------------------
\* The pulse engine over time: one event whose history was recorded by
\* earlier trending calls, with concurrent trending requests and the clock;
\* and one event with feedback, direct calls of compute_pulses and the clock
\* ------------------------------------------------------------------------
HistoryStarts == {0, HistoryCap - 1, HistoryCap}

PulseInit ==
  /\ lock = NoThread /\ now = 0
  /\ th = [t \in Threads |-> Idle(NoResp)]
  /\ snap = NoSnap /\ sv = SvIdle
  /\ reqs = 0
  /\ \E n \in HistoryStarts :
       /\ heap = Put(EmptyMap, 1, [i \in 1..n |-> <<0, 5000>>])
       /\ store = [OneEventStore(1, 0) EXCEPT
                     !.prices[OppName[1]] = IF n = 0 THEN 0 ELSE 5000]

\* datetime.now() moves on; the clock counts half-lives of the demand decay
Tick ==
  /\ now < MaxTicks
  /\ now' = now + 1
  /\ UNCHANGED <<store, heap, lock, th, snap, sv, reqs>>

PulseNext ==
  \/ \E t \in Threads : TrendingStart(t) \/ CpWrite(t) \/ CpTrim(t)
  \/ Tick

SpecPulse == PulseInit /\ [][PulseNext]_vars

DecayInit ==
  /\ heap = Put(EmptyMap, 1, <<>>) /\ lock = NoThread /\ now = 0
  /\ th = [t \in Threads |-> Idle(NoResp)]
  /\ snap = NoSnap /\ sv = SvIdle
  /\ reqs = 0
  /\ \E cap \in EventCaps : store = OneEventStore(cap, 0)

DecayNext ==
  \/ FeedbackRoute(1) \/ FeedbackAcquire(1) \/ FeedbackCS(1)
  \/ compute_pulses(1)
  \/ Tick

SpecDecay == DecayInit /\ [][DecayNext]_vars

\* ------------------------------------------------------------------------
\* Demo steps after /demo/setup, with the clock
\* ------------------------------------------------------------------------
\* capacity of the hot event
DemoCaps == {1, 3}

\* _seed_demo_dataset, reduced to the two demo users and the hot event: the
\* per-event state, the actor queue, and the pulses computed at the end
DemoInit ==
  /\ lock = NoThread /\ now = 0
  /\ th = [t \in Threads |-> Idle(NoResp)]
  /\ snap = NoSnap /\ sv = SvIdle
  /\ reqs = 0
  /\ heap = Put(EmptyMap, 1, << <<0, 5000>> >>)
  /\ \E cap \in DemoCaps :
       LET o == OppName[1]
           initial_queue_size == Max2(cap * 10, 40)
       IN store = [OneEventStore(cap, 0) EXCEPT
                     !.users = [u \in {UserName[1], UserName[2]} |->
                                  [availability |-> {"weeknights"}, cohort |-> NoCohort]],
                     !.prices[o] = 5000,
                     !.demo_hot_event_id = o,
                     !.demo_user_ids = <<UserName[1], UserName[2]>>,
                     !.demo_step_queue = Put(EmptyMap, o,
                                             _seed_step_queue(o, 0, initial_queue_size)),
                     !.demo_step_counts = Put(Put(EmptyMap, o, 0), "__global__", 0),
                     !.demo_actor_seq = initial_queue_size]

\* Time passes between the steps; a step itself takes no time on the scale
\* of the decay constant
TickBetweenSteps == IsIdle(1) /\ Tick

DemoNext ==
  \/ DemoStepStart(1) \/ DemoAcquire(1) \/ DemoCS(1)
  \/ FeedbackAcquire(1) \/ FeedbackCS(1) \/ log_rsvp(1)
  \/ CpWrite(1) \/ CpTrim(1)
  \/ DemoSolve(1) \/ SolvePublish(1) \/ DemoRank(1)
  \/ TickBetweenSteps

SpecDemo == DemoInit /\ [][DemoNext]_vars

\* ------------------------------------------------------------------------
\* Solve requests with the fairness boost, on a store of two users with
\* cohorts and one event (Scenario E and its neighbours)
\* ------------------------------------------------------------------------
FairCohorts == {NoCohort, "newcomer", "regular"}

FairCaps == {1, 2}

\* SolveRequest.enable_fairness_boost and SolveRequest.lambda_fair
\* (None: settings.fairness_lambda = 0.5; or 1.0)
FairRequests ==
  {DefaultSolveRequest,
   [DefaultSolveRequest EXCEPT !.enable_fairness_boost = TRUE],
   [DefaultSolveRequest EXCEPT !.enable_fairness_boost = TRUE, !.lambda_fair10 = 10]}

\* The store after upsert_user (cohort = request.cohort) for two users,
\* create_event for one event, and possibly an earlier solve
FairInit ==
  /\ heap = Put(EmptyMap, 1, <<>>) /\ lock = NoThread /\ now = 0
  /\ th = [t \in Threads |-> Idle(NoResp)]
  /\ snap = NoSnap /\ sv = SvIdle
  /\ reqs = 0
  /\ \E c1 \in FairCohorts, c2 \in FairCohorts, cap \in FairCaps,
        bf \in BOOLEAN, av \in Availabilities,
        last \in {<<>>, <<<<UserName[1], OppName[1]>>>>, <<<<UserName[2], OppName[1]>>>>} :
       store = [OneEventStore(cap, 0) EXCEPT
                  !.opps[OppName[1]].beginner_friendly = bf,
                  !.users = Put(Put(EmptyMap, UserName[1],
                                    [availability |-> {"weeknights"}, cohort |-> c1]),
                                UserName[2], [availability |-> av, cohort |-> c2]),
                  !.last_assignment = last]

FairSolveStart(t) == \E request \in FairRequests : SolveRoute(t, request)

FairNext == FairSolveStart(1) \/ SolvePublish(1) \/ SolveMetrics(1)

SpecFair == FairInit /\ [][FairNext]_vars

\* ------------------------------------------------------------------------
\* One client that RSVPs and un-RSVPs on a store of two users and one event
\* ------------------------------------------------------------------------
RsvpCaps == {0, 1, 2}

TwoUsers ==
  Put(Put(EmptyMap, UserName[1], [availability |-> {"weeknights"}, cohort |-> NoCohort]),
      UserName[2], [availability |-> {"weeknights"}, cohort |-> NoCohort])

RsvpInit ==
  /\ heap = Put(EmptyMap, 1, <<>>) /\ lock = NoThread /\ now = 0
  /\ th = [t \in Threads |-> Idle(NoResp)]
  /\ snap = NoSnap /\ sv = SvIdle
  /\ reqs = 0
  /\ \E cap \in RsvpCaps : store = [OneEventStore(cap, 0) EXCEPT !.users = TwoUsers]

RsvpNext ==
  \/ Acquire(1) \/ RsvpCheck(1) \/ RsvpInsert(1) \/ unrsvp_event(1)
  \/ RecordFeedbackAcquire(1) \/ FeedbackCS(1)

SpecRsvp == RsvpInit /\ [][RsvpNext]_vars

\* ------------------------------------------------------------------------
\* Direct calls of StateStore.record_feedback (as simulation.shock_popularity
\* makes them, with an opp_id nothing has validated)
\* ------------------------------------------------------------------------
FeedbackOpps == {OppName[1], OppName[2]}

\* The store after create_event for the events ids, no demand recorded
EventsStore(ids) ==
  LET rec == [capacity |-> 1, time_bucket |-> "weeknights", beginner_friendly |-> TRUE]
      s1 == OneEventStore(1, 0)
  IN IF OppName[2] \in ids
     THEN _ensure_opp_state([s1 EXCEPT !.opps = Put(@, OppName[2], rec)], OppName[2], 2)
     ELSE s1

FeedbackInit ==
  /\ lock = NoThread /\ now = 0
  /\ th = [t \in Threads |-> Idle(NoResp)]
  /\ snap = NoSnap /\ sv = SvIdle
  /\ reqs = 0
  /\ \E ids \in {{OppName[1]}, {OppName[1], OppName[2]}} :
       /\ store = EventsStore(ids)
       /\ heap = [r \in 1..Cardinality(ids) |-> <<>>]

\* store.record_feedback(event): `if not opp_id or not ev: return`, then
\* `with self.lock:`
RecordFeedbackCall(t) ==
  /\ IsIdle(t) /\ reqs < MaxRequests
  /\ Len(store.interactions) < MaxFeedbackCalls
  /\ UNCHANGED <<store, heap, lock, now, snap, sv>>
  /\ \E opp_id \in FeedbackOpps \cup {""}, ev \in EventType \cup {""} :
        IF opp_id = "" \/ ev = ""
        THEN Finish(t, Resp("OK", 0))
        ELSE Start(t, [Idle(NoResp) EXCEPT !.pc = "fb_wait", !.op = "record_feedback",
                                           !.user = UserName[1], !.opp = opp_id,
                                           !.ev = ev])
  /\ reqs' = reqs + 1

FeedbackNext ==
  \/ RecordFeedbackCall(1) \/ RecordFeedbackAcquire(1) \/ FeedbackCS(1)
  \/ Tick

SpecFeedback == FeedbackInit /\ [][FeedbackNext]_vars

\* ------------------------------------------------------------------------
\* api/routes_demo.py : _seed_demo_dataset (demo setup), reduced to the two
\* demo users and the hot event
\* ------------------------------------------------------------------------
DemoSetupStart(t) ==
  /\ IsIdle(t) /\ reqs < MaxRequests
  /\ Start(t, [Idle(NoResp) EXCEPT !.pc = "reset_wait", !.op = "demo_setup"])
  /\ reqs' = reqs + 1
  /\ UNCHANGED <<store, heap, lock, now, snap, sv>>

\* `with self.lock:` of StateStore.reset and `with store.lock:` of the setup
SetupAcquire(t) ==
  /\ th[t].pc \in {"reset_wait", "setup_wait"} /\ lock = NoThread
  /\ lock' = t
  /\ th' = [th EXCEPT ![t].pc = IF th[t].pc = "reset_wait" THEN "reset_cs" ELSE "setup_cs"]
  /\ UNCHANGED <<store, heap, now, snap, sv, reqs>>

\* store.reset(): every field back to its empty value
reset(t) ==
  /\ th[t].pc = "reset_cs" /\ lock = t
  /\ store' = EmptyStore
  /\ th' = [th EXCEPT ![t].pc = "setup_wait"]
  /\ lock' = NoThread
  /\ heap' = Collect(heap, store', snap, th')
  /\ UNCHANGED <<now, snap, sv, reqs>>

\* The locked block of _seed_demo_dataset: users, opps and every other
\* field are assigned, then _ensure_opp_state for each opportunity
DemoDataset(cap, ref) ==
  LET o == OppName[1]
      initial_queue_size == Max2(cap * 10, 40)
      s1 == [EmptyStore EXCEPT
               !.users = [u \in {UserName[1], UserName[2]} |->
                            [availability |-> {"weeknights"}, cohort |-> NoCohort]],
               !.opps = Put(EmptyMap, o, [capacity |-> cap, time_bucket |-> "weeknights",
                                          beginner_friendly |-> TRUE]),
               !.demo_hot_event_id = o,
               !.demo_user_ids = <<UserName[1], UserName[2]>>,
               !.demo_step_queue = Put(EmptyMap, o,
                                       _seed_step_queue(o, 0, initial_queue_size)),
               !.demo_step_counts = Put(Put(EmptyMap, o, 0), "__global__", 0),
               !.demo_actor_seq = initial_queue_size]
  IN _ensure_opp_state(s1, o, ref)

\* ... followed, outside the lock, by compute_pulses(record_history=True)
seed_demo_dataset(t) ==
  /\ th[t].pc = "setup_cs" /\ lock = t
  /\ \E cap \in DemoCaps :
       LET ref == FreshRef(heap)
           s1 == DemoDataset(cap, ref)
       IN /\ store' = s1
          /\ th' = [th EXCEPT ![t].pc = "cp_write", ![t].opps = KeysInOrder(OppName, s1.opps),
                               ![t].opprec = s1.opps, ![t].idx = 1]
          /\ heap' = Collect(Put(heap, ref, <<>>), s1, snap, th')
  /\ lock' = NoThread
  /\ UNCHANGED <<now, snap, sv, reqs>>

DemoSetup(t) ==
  \/ DemoSetupStart(t) \/ SetupAcquire(t) \/ reset(t) \/ seed_demo_dataset(t)
  \/ CpWrite(t) \/ CpTrim(t)

\* One client that seeds, sets the demo up, creates events and records
\* feedback, for known and unknown opportunities
StateNext ==
  \/ Acquire(1) \/ create_event(1) \/ update_event(1)
  \/ SeedRequest(1)
  \/ DemoSetup(1)
  \/ RecordFeedbackCall(1) \/ RecordFeedbackAcquire(1) \/ FeedbackCS(1)

SpecState == Init /\ [][StateNext]_vars

\* ------------------------------------------------------------------------
\* Two concurrent clients on the handlers that take the store lock, with
\* the wait for the lock as a step of its own
\* ------------------------------------------------------------------------
\* A handler reaches its `with store.lock:` ...
HandlerCalled(t) ==
  /\ IsIdle(t) /\ reqs < MaxLiveRequests
  /\ Start(t, [Idle(NoResp) EXCEPT !.pc = "wait"])
  /\ reqs' = reqs + 1
  /\ UNCHANGED <<store, heap, lock, now, snap, sv>>

\* ... and enters the block when the lock is free
HandlerAcquire(t) ==
  /\ th[t].pc = "wait" /\ lock = NoThread
  /\ lock' = t
  /\ th' = [th EXCEPT ![t].pc = "cs"]
  /\ UNCHANGED <<store, heap, now, snap, sv, reqs>>

\* where a request stands when it has reached a `with ...lock:`
WaitPcs == {"wait", "fb_wait", "reset_wait", "setup_wait"}

\* threading.Lock.acquire of a waiting request
LockAcquire(t) == HandlerAcquire(t) \/ RecordFeedbackAcquire(t) \/ SetupAcquire(t)

\* the statements of a request that is not waiting for the lock
Running(t) ==
  \/ RsvpCheck(t) \/ RsvpInsert(t) \/ unrsvp_event(t) \/ FeedbackCS(t)
  \/ reset(t) \/ seed_demo_dataset(t) \/ CpWrite(t) \/ CpTrim(t)

\* the demo setup, within the requests the two clients make between them
LiveSetupStart(t) == reqs < MaxLiveRequests /\ DemoSetupStart(t)

LiveNext ==
  \E t \in Threads : HandlerCalled(t) \/ LiveSetupStart(t) \/ LockAcquire(t) \/ Running(t)

\* Fair scheduling: a thread that can run does run, and a thread waiting
\* for a lock that is free again and again gets it
SpecLive ==
  /\ RsvpInit /\ [][LiveNext]_vars
  /\ \A t \in Threads : WF_vars(Running(t)) /\ SF_vars(LockAcquire(t))

\* ------------------------------------------------------------------------
\* Properties
\* ------------------------------------------------------------------------
RsvpSet(st, o) == Get(st.rsvps, o, {})

\* Thread t takes the first step of an RSVP critical section in this step
RsvpCheckStep(t) ==
  /\ th[t].pc = "cs" /\ th'[t].pc \in {"idle", "rsvp_insert"}
  /\ th'[t].op \in RsvpOps

\* Thread t executes rsvp_set.add in this step
RsvpInsertStep(t) == th[t].pc = "rsvp_insert" /\ th'[t].pc = "fb_wait"

\* Thread t returns from an RSVP that inserted the user in this step
RsvpReturnStep(t) ==
  th[t].pc = "fb_cs" /\ th[t].op \in RsvpOps /\ th'[t].pc = "idle"

\* C1: in every reachable state, every event has at most capacity(o) users
\* in its RSVP set, including after an update-event lowered the capacity.
C1_RsvpWithinCapacity ==
  \A o \in DOMAIN store.opps :
     Cardinality(RsvpSet(store, o)) <= store.opps[o].capacity

\* C2: the capacity check and the insertion of an RSVP are one critical
\* section: whenever a request inserts a user the event still has the free
\* spot its check saw and the set stays within the capacity, and a request
\* answered FULL saw a set that held capacity(o) users; so of the concurrent
\* requests for k free spots at most k are inserted.
C2_CheckAndInsertAtomic ==
  [][\A t \in Threads :
       /\ RsvpInsertStep(t) =>
            /\ lock = t
            /\ th[t].user \notin RsvpSet(store, th[t].opp)
            /\ Cardinality(RsvpSet(store, th[t].opp)) < store.opps[th[t].opp].capacity
            /\ Cardinality(RsvpSet(store', th[t].opp)) <= store'.opps[th[t].opp].capacity
       /\ (RsvpCheckStep(t) /\ th'[t].resp.status = "FULL") =>
            Cardinality(RsvpSet(store, th'[t].opp)) >= store.opps[th'[t].opp].capacity
    ]_vars

\* Two requests raced for the last spot: one inserted, the other got FULL
C2_Witness ==
  \E t1, t2 \in Threads :
     /\ t1 # t2
     /\ th[t1].pc \in {"fb_wait", "fb_cs"} /\ th[t1].op \in RsvpOps
     /\ th[t2].pc = "idle" /\ th[t2].op \in RsvpOps /\ th[t2].opp = th[t1].opp
     /\ th[t2].user # th[t1].user
     /\ th[t2].resp = Resp("FULL", 0)
     /\ store.opps[th[t1].opp].capacity > 0

\* C3: an RSVP by a user who is not in the RSVP set of an event whose set
\* already holds capacity(o) users returns {status: FULL, spots_left: 0} and
\* leaves the RSVP set, the interaction log, shown_window and net_demand
\* unchanged; the request ends there.
C3_FullChangesNothing ==
  [][\A t \in Threads :
       LET u == th'[t].user
           o == th'[t].opp
       IN (/\ RsvpCheckStep(t)
           /\ u \in DOMAIN store.users /\ o \in DOMAIN store.opps
           /\ u \notin RsvpSet(store, o)
           /\ Cardinality(RsvpSet(store, o)) = store.opps[o].capacity)
          => /\ th'[t].pc = "idle"
             /\ th'[t].resp = Resp("FULL", 0)
             /\ RsvpSet(store', o) = RsvpSet(store, o)
             /\ store'.interactions = store.interactions
             /\ store'.shown_window = store.shown_window
             /\ store'.net_demand = store.net_demand
    ]_vars

C3_Witness ==
  \E t \in Threads :
     /\ th[t].pc = "idle" /\ th[t].op \in RsvpOps
     /\ th[t].resp = Resp("FULL", 0)
     /\ th[t].opp \in DOMAIN store.opps /\ th[t].user \in DOMAIN store.users
     /\ th[t].user \notin RsvpSet(store, th[t].opp)
     /\ store.opps[th[t].opp].capacity > 0
     /\ Cardinality(RsvpSet(store, th[t].opp)) = store.opps[th[t].opp].capacity

\* C4: an RSVP by an existing user for an existing event with a free spot
\* completes with status CONFIRMED, the user is in the RSVP set, spots_left
\* is capacity - |RSVP set| after the insertion, and exactly one 'accepted'
\* interaction for the (user, event) was recorded.
C4_RsvpConfirmed ==
  [][\A t \in Threads :
       RsvpReturnStep(t) =>
         LET u == th[t].user
             o == th[t].opp
         IN /\ th'[t].resp.status = "CONFIRMED"
            /\ th'[t].resp.spots_left = th[t].spots_left
            /\ th[t].spots_left >= 0
            /\ Len(store'.interactions) = Len(store.interactions) + 1
            /\ LET last == store'.interactions[Len(store'.interactions)]
               IN last.user_id = u /\ last.opp_id = o /\ last.event = "accepted"
    ]_vars

\* Number of pairs of an assignment list that name user u / opportunity o
AssignedCountOfUser(assignments, u) ==
  Cardinality({k \in DOMAIN assignments : assignments[k][1] = u})

AssignedCountOfOpp(assignments, o) ==
  Cardinality({k \in DOMAIN assignments : assignments[k][2] = o})

\* C5: on every solver path solve_assignment returns (A, U) such that every
\* input user is in exactly one of them, once, and |A| + |U| = |users|.
C5_AssignedOrUnassigned ==
  sv.pc = "solved" =>
    /\ \A u \in Range(sv.users) :
          AssignedCountOfUser(sv.assignments, u)
            + Cardinality({k \in DOMAIN sv.unassigned : sv.unassigned[k] = u}) = 1
    /\ Len(sv.assignments) + Len(sv.unassigned) = Len(sv.users)

C5_Witness ==
  /\ sv.pc = "solved"
  /\ Len(sv.assignments) >= 1 /\ Len(sv.unassigned) >= 1

\* C6: the result of solve_assignment gives every opportunity o at most
\* max(0, capacities[o]) users, so none to a capacity that is 0 or negative,
\* and only opportunities of the input are assigned.
C6_CapacityRespected ==
  sv.pc = "solved" =>
    /\ \A o \in Range(sv.opps) :
          AssignedCountOfOpp(sv.assignments, o) <= Max2(0, sv.capacities[o])
    /\ \A k \in DOMAIN sv.assignments : sv.assignments[k][2] \in Range(sv.opps)

\* Two users both score an opportunity of capacity 1 and another of
\* capacity <= 0: one user gets the spot, nobody the closed opportunity
C6_Witness ==
  /\ sv.pc = "solved"
  /\ \E o1, o2 \in Range(sv.opps) :
        /\ sv.capacities[o1] <= 0
        /\ sv.capacities[o2] = 1
        /\ \A u \in Range(sv.users) : {o1, o2} \subseteq DOMAIN sv.matrix[u]
        /\ Len(sv.users) = 2
        /\ AssignedCountOfOpp(sv.assignments, o2) = 1

\* The pair (u, o) of a solve request fails the availability gate
Infeasible(rec, u, o) ==
  /\ rec.profile[u].availability # {}
  /\ rec.opprec[o].time_bucket \notin rec.profile[u].availability

\* C7: availability is a hard gate: a pair (u, o) whose time bucket is not
\* in the user's non-empty availability has no score and no explanation and
\* is never assigned, and a user with no feasible opportunity is unassigned.
C7_AvailabilityGate ==
  \A t \in Threads :
     th[t].pc = "sv_publish" =>
       /\ \A u \in Range(th[t].users), o \in Range(th[t].opps) :
             Infeasible(th[t], u, o) =>
               /\ o \notin DOMAIN Get(th[t].matrix, u, EmptyMap)
               /\ <<u, o>> \notin th[t].explanations
               /\ \A k \in DOMAIN th[t].assignments : th[t].assignments[k] # <<u, o>>
       /\ \A u \in Range(th[t].users) :
             (\A o \in Range(th[t].opps) : Infeasible(th[t], u, o)) =>
                /\ \E k \in DOMAIN th[t].unassigned : th[t].unassigned[k] = u
                /\ AssignedCountOfUser(th[t].assignments, u) = 0

\* A solve with one user the open event is feasible for and one it is not
C7_Witness ==
  \E t \in Threads :
     /\ th[t].pc = "sv_publish"
     /\ \E u1, u2 \in Range(th[t].users), o \in Range(th[t].opps) :
           /\ Infeasible(th[t], u1, o)
           /\ ~Infeasible(th[t], u2, o)
           /\ th[t].assignments = <<<<u2, o>>>>
           /\ th[t].unassigned = <<u1>>

\* Scenario B: two identical users, one event of capacity 1
TwoIdenticalUsersOneSpot(users, opps) ==
  /\ Cardinality(DOMAIN users) = 2
  /\ \A u, v \in DOMAIN users : users[u] = users[v]
  /\ Cardinality(DOMAIN opps) = 1
  /\ \A o \in DOMAIN opps : opps[o].capacity = 1

\* ... and the last solve assigned the spot to the other user
UnassignedBySolve(u, o) ==
  /\ TwoIdenticalUsersOneSpot(store.users, store.opps)
  /\ u \in DOMAIN store.users /\ o \in DOMAIN store.opps
  /\ Len(store.last_assignment) = 1
  /\ store.last_assignment[1][2] = o
  /\ store.last_assignment[1][1] # u

C9_WritesUnderLock ==
  [][\A t \in Threads :
       (th'[t] # th[t] /\ (store' # store \/ heap' # heap)) => lock = t
    ]_vars

\* C10: a snapshot is a deep copy: what it holds (pulse_history lists and
\* RSVP lists included) does not change when the store is mutated later.
C10_SnapshotIsDeepCopy ==
  [][(snap.taken /\ snap' = snap) => SnapView' = SnapView]_vars

\* C11: a successful solve replaces last_assignment as its final step: once
\* a solve request has assigned store.last_assignment, no later step of that
\* request writes the store.
C11_PublishIsLastWrite ==
  [][\A t \in Threads :
       (th[t].op = "solve" /\ th[t].pc = "sv_metrics") => store' = store]_vars

\* Thread t returns from a seed request that failed in this step
SeedFailStep(t) ==
  /\ th[t].pc = "seed_cs" \/ (th[t].pc = "idle" /\ reqs' # reqs)
  /\ th'[t].pc = "idle" /\ th'[t].op = "seed" /\ th'[t].resp.status # "OK"

\* C12: no partial writes on fixture load: a seed request that fails (file
\* missing, malformed JSON, an entry that fails validation) returns an error
\* and leaves the store exactly as it was before the call.
C12_FailedLoadLeavesStore ==
  [][\A t \in Threads :
       SeedFailStep(t) =>
          /\ th'[t].resp.status \in {"404", "ERROR"}
          /\ store' = store]_vars

\* Thread t starts a request of one of the routes in ops in this step
RouteStartStep(t, ops) == IsIdle(t) /\ reqs' # reqs /\ th'[t].op \in ops

\* C13: solve and rebalance called while the store has no users or no
\* opportunities fail with the 400 error and leave the store untouched: no
\* pulse written, no pulse-history entry appended, last_assignment kept.
C13_EmptyStoreRejected ==
  [][\A t \in Threads :
       (/\ RouteStartStep(t, {"solve", "rebalance"})
        /\ (DOMAIN store.users = {} \/ DOMAIN store.opps = {}))
       => /\ th'[t].pc = "idle" /\ th'[t].resp.status = "400"
          /\ store' = store /\ heap' = heap]_vars

C13_Witness ==
  /\ th[1].pc = "idle" /\ th[1].op = "rebalance" /\ th[1].resp.status = "400"
  /\ DOMAIN store.users # {} /\ DOMAIN store.opps = {}

\* C14: on an empty store (no users, no opportunities) feed and trending
\* both return a response with an empty items list, without an error and
\* without changing the store.
C14_EmptyStoreEmptyItems ==
  [][\A t \in Threads :
       (/\ RouteStartStep(t, {"feed", "trending"})
        /\ DOMAIN store.users = {} /\ DOMAIN store.opps = {})
       => /\ th'[t].pc = "idle" /\ th'[t].resp.status = "OK"
          /\ th'[t].resp.items = <<>>
          /\ store' = store /\ heap' = heap]_vars

\* C14 (amended): on a store without opportunities, feed for a user of the
\* store and trending return an empty items list, feed for a user id that
\* is not in the store (every id, on a store without users) fails with 404,
\* and none of them changes the store.
C14_NoOppsEmptyItems ==
  [][\A t \in Threads :
       (RouteStartStep(t, {"feed", "trending"}) /\ DOMAIN store.opps = {})
       => /\ th'[t].pc = "idle"
          /\ store' = store /\ heap' = heap
          /\ IF th'[t].op = "feed" /\ th'[t].user \notin DOMAIN store.users
             THEN th'[t].resp.status = "404"
             ELSE th'[t].resp.status = "OK" /\ th'[t].resp.items = <<>>]_vars

C14_Witness ==
  /\ th[1].pc = "idle" /\ th[1].op = "feed" /\ th[1].user \in DOMAIN store.users
  /\ th[1].resp.status = "OK" /\ th[1].resp.items = <<>>
  /\ DOMAIN store.opps = {}

InPulseRange(p) == 0 <= p /\ p <= 10000

\* C15: whenever a pulse is present for an opportunity, in the store's price
\* map or in a map returned by compute_pulses, it lies in [0, 100], for every
\* net demand, capacity (0 and below included) and liquidity override
\* (liquidity_k <= 0 included).
C15_PulseInRange ==
  /\ \A o \in DOMAIN store.prices : InPulseRange(store.prices[o])
  /\ \A t \in Threads : \A o \in DOMAIN th[t].pulses : InPulseRange(th[t].pulses[o])

C15_Witness ==
  /\ th[1].op = "compute_pulses" /\ th[1].request.pricing.liquidity_k = 1
  /\ store.opps[OppName[1]].capacity = 0
  /\ store.net_demand[OppName[1]] = 1000
  /\ OppName[1] \in DOMAIN th[1].pulses
  /\ store.prices[OppName[1]] = th[1].pulses[OppName[1]]

Chronological(history) ==
  \A i, j \in DOMAIN history : i < j => history[i][1] <= history[j][1]

\* C16: for every opportunity, in every state a request can observe (the
\* states between the steps of a running compute_pulses included), the pulse
\* history has at most 50 entries and they are in chronological order.
C16_HistoryCapped ==
  \A o \in DOMAIN store.pulse_history :
     /\ Len(HistoryOf(store, heap, o)) <= HistoryCap
     /\ Chronological(HistoryOf(store, heap, o))

\* C17: after positive demand was recorded (pulse > 50), when the clock has
\* advanced by several decay constants with no interaction in between, the
\* next compute_pulses returns a pulse strictly closer to 50 than the one
\* returned before.
C17_PulseDecaysOverTime ==
  [][\A t \in Threads : \A o \in DOMAIN th[t].pulses :
       (/\ th[t].pc = "idle" /\ th[t].op = "compute_pulses"
        /\ th'[t].pc = "idle" /\ th'[t].op = "compute_pulses" /\ reqs' # reqs
        /\ th'[t].request = th[t].request /\ o \in DOMAIN th'[t].pulses
        /\ th[t].pulses[o] > 5000
        /\ now >= th[t].ts + 2)
       => /\ th'[t].pulses[o] >= 5000
          /\ th'[t].pulses[o] < th[t].pulses[o]]_vars

\* Thread t returns the response of a demo step in this step
DemoReturnStep(t) ==
  /\ th[t].pc = "demo_rank" /\ th'[t].pc = "idle"
  /\ th'[t].resp.status = "OK"

\* C18: across successive demo steps against the hot event the reported
\* rsvp_count never decreases and never exceeds the capacity, and in every
\* step the reported after_pulse is at least the reported before_pulse,
\* whatever time passes between the steps.
C18_DemoStepMonotone ==
  [][\A t \in Threads :
       DemoReturnStep(t) =>
          /\ th'[t].rsvp_count >= th'[t].prev_rsvp_count
          /\ th'[t].rsvp_count <= th'[t].opprec[th'[t].opp].capacity
          /\ th'[t].after_pulse >= th'[t].before_pulse]_vars

\* The total the solver minimised: the quantized cost of every user's arc,
\* to the opportunity it was assigned or to the sink
TotalQuantizedCost(users, score_matrix, assignments) ==
  LET mx == max_score(score_matrix)
      arc == [u \in Range(users) |->
                IF \E k \in DOMAIN assignments : assignments[k][1] = u
                THEN LET k == CHOOSE k \in DOMAIN assignments : assignments[k][1] = u
                     IN cost_for(mx, score_matrix[u][assignments[k][2]])
                ELSE cost_for(mx, 0)]
  IN SumOver(Range(users), arc)

\* Thread t has the result of a solve whose request equals that of the
\* solve it received just before, with no other request in between
SecondOfTwoSolves(t) ==
  /\ th[t].pc = "sv_publish" /\ th[t].op = "solve"
  /\ th[t].prev.op = "solve" /\ th[t].prev.status = "OK"
  /\ th[t].prev.request = th[t].request
  /\ th[t].prev.path = th[t].path

SameTotals(t) ==
  /\ Len(th[t].assignments) = Len(th[t].prev.assignments)
  /\ TotalQuantizedCost(th[t].users, th[t].matrix, th[t].assignments)
       = TotalQuantizedCost(th[t].prev.users, th[t].prev.matrix,
                            th[t].prev.assignments)

\* C19: two successive solve calls with the same request and no operation
\* in between return assignments with identical totals (the same number of
\* assigned users and the same total quantized cost), for every request,
\* one with the fairness boost enabled included.
C19_SuccessiveSolvesSameTotals ==
  \A t \in Threads : SecondOfTwoSolves(t) => SameTotals(t)

\* C19, amended: two successive solve calls with the same request and no
\* operation in between return assignments with identical totals when the
\* request does not enable the fairness boost, or when it does and the
\* first call started from the cohort exposure rates that its own
\* assignment (the new last_assignment) gives.
C19_SuccessiveSolvesSameTotalsSameRates ==
  \A t \in Threads :
     (/\ SecondOfTwoSolves(t)
      /\ (th[t].request.enable_fairness_boost => th[t].prev.rates = th[t].rates))
     => SameTotals(t)

C19_Witness ==
  /\ SecondOfTwoSolves(1)
  /\ th[1].request.enable_fairness_boost
  /\ th[1].prev.rates = th[1].rates
  /\ \E c \in DOMAIN th[1].rates : th[1].rates[c] > 0
  /\ Cardinality(DOMAIN th[1].rates) = 2
  /\ th[1].assignments # <<>>

\* Scenario E: one user of cohort newcomer (n) never assigned, one of cohort
\* regular (r) holding the last assignment, and one event of capacity 1
\* that both are available for
ScenarioE(st, n, r, o) ==
  /\ DOMAIN st.users = {n, r} /\ n # r /\ DOMAIN st.opps = {o}
  /\ st.users[n].cohort = "newcomer" /\ st.users[r].cohort = "regular"
  /\ st.opps[o].capacity = 1
  /\ st.opps[o].time_bucket \in st.users[n].availability
  /\ st.opps[o].time_bucket \in st.users[r].availability
  /\ st.last_assignment = <<<<r, o>>>>

\* C20: Scenario E.  rates[c] = (users of cohort c in last_assignment) /
\* (users of cohort c), and with fairness enabled a user's final score is
\* increased by lambda_fair * max(0, max(rates) - rates[cohort(u)]).  With
\* one newcomer (rate 0), one regular (rate 1) and lambda_fair = 1.0 the
\* solve computes the newcomer's score exactly 1.0 above the equally rated
\* regular's and assigns the capacity-1 event to the newcomer.
C20_FairnessReallocates ==
  [][\A t \in Threads, n \in UserInputs, r \in UserInputs, o \in OppInputs :
       (/\ ScenarioE(store, n, r, o)
        /\ RouteStartStep(t, {"solve"})
        /\ th'[t].request.enable_fairness_boost
        /\ th'[t].request.lambda_fair10 = 10)
       => /\ th'[t].pc = "sv_publish"
          /\ th'[t].rates = [c \in {"newcomer", "regular"} |->
                                IF c = "regular" THEN 1000 ELSE 0]
          /\ th'[t].matrix[n][o] = th'[t].matrix[r][o] + 1000
          /\ th'[t].assignments = <<<<n, o>>>>]_vars

\* Thread t executes the critical section of an un-RSVP in this step
UnrsvpStep(t) ==
  th[t].pc = "cs" /\ th'[t].pc = "fb_wait" /\ th'[t].op = "unrsvp_event"

\* Thread t returns from an un-RSVP in this step
UnrsvpReturnStep(t) ==
  th[t].pc = "fb_cs" /\ th[t].op = "unrsvp_event" /\ th'[t].pc = "idle"

\* The two requests before this one were an RSVP that inserted user u in
\* the RSVP set of o and the un-RSVP of u on o
RoundTripDone(st, u, o) ==
  LET n == Len(st.interactions)
  IN /\ n >= 2
     /\ st.interactions[n - 1].user_id = u /\ st.interactions[n - 1].opp_id = o
     /\ st.interactions[n - 1].event = "accepted"
     /\ st.interactions[n].user_id = u /\ st.interactions[n].opp_id = o
     /\ st.interactions[n].event = "declined"

C22_LogFailureNotFatal ==
  \A t \in Threads :
     (th[t].pc = "idle" /\ th[t].log_failed) => th[t].resp.status = "OK"

\* Thread t executes the locked part of record_feedback in this step, for
\* an opportunity that is in the store
RecordStep(t) ==
  /\ th[t].pc = "fb_cs" /\ th'[t].pc # "fb_cs"
  /\ th[t].opp \in DOMAIN store.opps

\* What C23 says of every event: one interaction appended, shown_window
\* counted for shown, clicked, accepted and declined, the state of every
\* other opportunity unchanged
FeedbackFrame(t) ==
  LET o == th[t].opp
      ev == th[t].ev
      others(m) == [x \in DOMAIN m \ {o} |-> m[x]]
  IN /\ Len(store'.interactions) = Len(store.interactions) + 1
     /\ SubSeq(store'.interactions, 1, Len(store.interactions)) = store.interactions
     /\ LET last == store'.interactions[Len(store'.interactions)]
        IN last.opp_id = o /\ last.event = ev /\ last.user_id = th[t].user
     /\ store'.shown_window[o] =
           store.shown_window[o]
             + (IF ev \in {"shown", "clicked", "accepted", "declined"} THEN 1 ELSE 0)
     /\ ev \in {"shown", "attended"} =>
           /\ store'.net_demand = store.net_demand
           /\ store'.last_demand_ts = store.last_demand_ts
     /\ (store.net_demand[o] = 0 /\ ev \in {"clicked", "accepted"})
           => store'.net_demand[o] > 0
     /\ (store.net_demand[o] = 0 /\ ev = "declined") => store'.net_demand[o] < 0
     /\ others(store'.net_demand) = others(store.net_demand)
     /\ others(store'.last_demand_ts) = others(store.last_demand_ts)
     /\ others(store'.shown_window) = others(store.shown_window)
     /\ others(store'.prices) = others(store.prices)
     /\ others(store'.rsvps) = others(store.rsvps)
     /\ others(store'.pulse_history) = others(store.pulse_history)
     /\ store'.opps = store.opps /\ store'.users = store.users

C24_UnknownOppIgnored ==
  [][\A t \in Threads :
       (/\ th[t].pc = "fb_cs" /\ th'[t].pc # "fb_cs"
        /\ th[t].opp \notin DOMAIN store.opps)
       => /\ store'.interactions = store.interactions
          /\ store'.prices = store.prices
          /\ store'.net_demand = store.net_demand
          /\ store'.last_demand_ts = store.last_demand_ts
          /\ store'.shown_window = store.shown_window
          /\ store'.rsvps = store.rsvps
          /\ store'.pulse_history = store.pulse_history
          /\ heap' = heap
    ]_vars

\* ------------------------------------------------------------------------
\* C25: in every reachable state, every opportunity id in the store's opps
\* map has an entry in each per-opportunity map (prices, net_demand,
\* last_demand_ts, shown_window, rsvps, pulse_history), whatever sequence
\* of seed, load_fixture, generate_synthetic, create-event, demo setup,
\* feedback and reset operations led there
PerOppMaps(st) ==
  <<st.prices, st.net_demand, st.last_demand_ts, st.shown_window, st.rsvps,
    st.pulse_history>>

C25_EveryOppHasState ==
  \A k \in DOMAIN PerOppMaps(store) :
     DOMAIN store.opps \subseteq DOMAIN PerOppMaps(store)[k]

\* the demo was set up on a store that an earlier request had filled, and
\* a feedback for an opportunity that is not in the store came after it
C25_Witness ==
  /\ th[1].pc = "idle"
  /\ store.demo_hot_event_id \in DOMAIN store.opps
  /\ DOMAIN store.prices # DOMAIN store.opps
  /\ Len(store.interactions) = MaxFeedbackCalls

FlowSolved == sv.pc = "solved" /\ sv.path \in {"ortools", "networkx"}

\* every way of giving each user one opportunity of their row, or none
CapacityRespecting ==
  {g \in [Range(sv.users) -> Range(sv.opps) \cup {Sink}] :
      /\ \A u \in Range(sv.users) : g[u] # Sink => g[u] \in DOMAIN sv.matrix[u]
      /\ \A o \in Range(sv.opps) :
            Cardinality({u \in Range(sv.users) : g[u] = o}) <= Max2(0, sv.capacities[o])}

QuantizedPairCost(u, o) == RoundHalfEven10(max_score(sv.matrix) - sv.matrix[u][o])

QuantizedUnassignedCost == RoundHalfEven10(max_score(sv.matrix))

QuantizedCost(g) ==
  SumOver(Range(sv.users),
          [u \in Range(sv.users) |->
             IF g[u] = Sink THEN QuantizedUnassignedCost ELSE QuantizedPairCost(u, g[u])])

\* the returned (A, U) as one of these choices
Returned ==
  [u \in Range(sv.users) |->
     IF \E k \in DOMAIN sv.assignments : sv.assignments[k][1] = u
     THEN sv.assignments[CHOOSE k \in DOMAIN sv.assignments : sv.assignments[k][1] = u][2]
     ELSE Sink]

MinimizesQuantizedCost ==
  /\ Returned \in CapacityRespecting
  /\ \A g \in CapacityRespecting : QuantizedCost(Returned) <= QuantizedCost(g)

IsUnassigned(u) == \E k \in DOMAIN sv.unassigned : sv.unassigned[k] = u

C27_FlowMinimizesCost ==
  FlowSolved =>
    /\ MinimizesQuantizedCost
    /\ \A u \in Range(sv.users) :
          (\A o \in DOMAIN sv.matrix[u] : sv.matrix[u][o] < 0) => IsUnassigned(u)

\* C27, amended: ... consequently a user whose every pair costs more, after
\* rounding, than being unassigned is left unassigned
C27_FlowMinimizesCostRounded ==
  FlowSolved =>
    /\ MinimizesQuantizedCost
    /\ \A u \in Range(sv.users) :
          (\A o \in DOMAIN sv.matrix[u] : QuantizedPairCost(u, o) > QuantizedUnassignedCost)
             => IsUnassigned(u)

\* two users and a free spot for each: the one with the good score takes
\* one, the one with the score below -0.01 is left unassigned
C27_Witness ==
  /\ FlowSolved
  /\ sv.users = <<UserName[1], UserName[2]>>
  /\ sv.matrix[UserName[1]] = Put(EmptyMap, OppName[1], -20)
  /\ sv.matrix[UserName[2]] = Put(EmptyMap, OppName[1], 500)
  /\ sv.capacities[OppName[1]] = 2
  /\ sv.assignments = <<<<UserName[2], OppName[1]>>>>
  /\ sv.unassigned = <<UserName[1]>>

\* ------------------------------------------------------------------------
\* C28: whenever the min-cost-flow solver is unavailable, raises or returns
\* a non-optimal status, solve_assignment surfaces no error and returns
\* the greedy result: the users are visited in input order and each takes
\* the highest-scoring opp of their row that still has remaining capacity
\* (unassigned if none)
FlowSolverFailed ==
  \/ sv.ortools = "not_optimal"
  \/ sv.ortools = "raises" /\ sv.networkx = "raises"

\* what users[i] was given
GivenTo(i) ==
  LET ks == {k \in DOMAIN sv.assignments : sv.assignments[k][1] = sv.users[i]}
  IN IF ks = {} THEN Sink ELSE sv.assignments[CHOOSE k \in ks : TRUE][2]

\* the opps of the row of users[i] with capacity left when their turn comes
StillFree(i) ==
  {o \in DOMAIN sv.matrix[sv.users[i]] :
      Max2(0, Get(sv.capacities, o, 0)) > Cardinality({j \in 1..(i - 1) : GivenTo(j) = o})}

PrimaryAsClaimed(u) ==
  LET rec == sv.recommendations[u]
      row == sv.matrix[u]
      ks == {k \in DOMAIN sv.assignments : sv.assignments[k][1] = u}
  IN IF ks # {} THEN \E k \in ks : rec.primary = sv.assignments[k][2]
     ELSE IF DOMAIN row = {} THEN rec.primary = NoPrimary
     ELSE /\ rec.primary \in DOMAIN row
          /\ \A o \in DOMAIN row : row[rec.primary] >= row[o]

AlternativesAsClaimed(u) ==
  LET rec == sv.recommendations[u]
      row == sv.matrix[u]
      alt == rec.alternatives
  IN /\ \A i \in DOMAIN alt : alt[i] \in DOMAIN row /\ alt[i] # rec.primary
     /\ \A i, j \in DOMAIN alt : i < j => alt[i] # alt[j] /\ row[alt[i]] >= row[alt[j]]
     /\ \A i \in DOMAIN alt : \A o \in DOMAIN row \ (Range(alt) \cup {rec.primary}) :
           row[alt[i]] >= row[o]

C29_Recommendations ==
  sv.pc = "recommended" =>
    \A u \in Range(sv.users) :
       /\ PrimaryAsClaimed(u)
       /\ AlternativesAsClaimed(u)
       /\ Len(sv.recommendations[u].alternatives) <= sv.top_k

\* ------------------------------------------------------------------------
\* C30: a repeated RSVP by a user who is already in the event's RSVP set
\* leaves the RSVP set, the interaction log, shown_window and net_demand
\* unchanged and returns the success status, not FULL, even when the event
\* is at capacity
RepeatedRsvpStep(t) ==
  /\ RsvpCheckStep(t)
  /\ th'[t].user \in DOMAIN store.users /\ th'[t].opp \in DOMAIN store.opps
  /\ th'[t].user \in RsvpSet(store, th'[t].opp)

StoreUntouchedByRsvp ==
  /\ store'.rsvps = store.rsvps
  /\ store'.interactions = store.interactions
  /\ store'.shown_window = store.shown_window
  /\ store'.net_demand = store.net_demand

C30_RepeatedRsvpIdempotent ==
  [][\A t \in Threads :
       RepeatedRsvpStep(t) =>
          /\ th'[t].pc = "idle"
          /\ th'[t].resp.status \in {"CONFIRMED", "ACCEPTED"}
          /\ StoreUntouchedByRsvp
    ]_vars
====
